---------------------------- MODULE Spec2Model ----------------------------
(***************************************************************************)
(* nk_autocode: the generation / caching / validation control loop of      *)
(* Assistant (src/nk_autocode/presets/assistant.py), with the cache        *)
(* Workspace, the artifacts of src/nk_autocode/framework.py and the        *)
(* process-wide defaults of src/nk_autocode/presets/default.py.            *)
(*                                                                         *)
(* A source text is a label; what executing it does (raise, or bind names  *)
(* at module scope) is given by Raises / ExcMessage / Namespace.  A file   *)
(* path is the sequence of its components, so that two paths are equal     *)
(* exactly when pathlib builds the same path.                              *)
(***************************************************************************)
EXTENDS Naturals, Sequences, FiniteSets, TLC

(* ------------------------------ bounds -------------------------------- *)

\* autocode invocations and decorator re-applications in one run
MaxCalls == 2

\* Agent.generate_code calls in one invocation
MaxAttempts == 2

\* applications of one decorator
MaxApplications == 2

(* --------------------------- Python values ---------------------------- *)

None == "None"

\* bool(v) of a str | None
Truthy(v) == v # None /\ v # ""

\* caller_path is None (autocode(stack=[]))
NoCaller == << >>

\* a Path | None that is None
NoPath == << >>

(* ---------------------------- input domains --------------------------- *)

Ids == {"i1", "i2"}

Names == {"f", "g"}

\* Path(stack[0].filename).relative_to(Path.cwd()), by components
CallerPaths == {<<"a.py">>, <<"pkg", "b.py">>}

\* source texts
Sources == {"syntax_error", "sys_exit", "def_f", "def_g", "f_is_5", "def_g_def_f"}

\* what Agent.generate_code and the editor return
AgentSources == {"syntax_error", "sys_exit", "def_f", "def_g", "f_is_5"}


FeedbackTexts == {"wrong result"}

\* a dry_run_fn
Stub == [src |-> "dry_run_fn", var |-> "stub", kind |-> "function"]

\* override strings, split at ':' ("pkg.mod_a:fn" is <<"pkg.mod_a", "fn">>)
Overrides == {<<"mod_a", "fn">>, <<"mod_x", "fn">>, <<"mod_a", "nope">>, <<"mod_a">>}

\* importable modules and their attributes
Modules == {"mod_a"}

ModuleAttrs(mod) == IF mod = "mod_a" THEN {"fn"} ELSE {}

\* what the reviewer leaves in the editor's file
EditorTexts == {"def_f", "f_is_5"}

\* exit statuses of the editor process
ExitCodes == {0, 1}

\* positional arguments of a call of an artifact
ArgTuples == {<<1, 2>>}

(* --------------- executing a source text: exec(code, ns) --------------- *)

\* the class of the exception exec(code, ns) raises: "x = (" does not compile,
\* "import sys; sys.exit(1)" leaves through SystemExit
ExcClass(code) ==
    CASE code = "syntax_error" -> "SyntaxError"
      [] code = "sys_exit" -> "SystemExit"
      [] OTHER -> None

Raises(code) == ExcClass(code) # None

\* issubclass(cls, Exception): SystemExit derives from BaseException only
IsException(cls) == cls \in {"SyntaxError"}

\* str(e) of the exception exec raises
ExcMessage(code) ==
    CASE code = "syntax_error" -> "invalid syntax"
      [] code = "sys_exit" -> "1"
      [] OTHER -> ""

\* the names bound at module scope, in definition order
Namespace(code) ==
    CASE code = "def_f" -> << [var |-> "f", kind |-> "function"] >>
      [] code = "def_g" -> << [var |-> "g", kind |-> "function"] >>
      [] code = "f_is_5" -> << [var |-> "f", kind |-> "int"] >>
      [] code = "def_g_def_f" -> << [var |-> "g", kind |-> "function"],
                                    [var |-> "f", kind |-> "function"] >>
      [] OTHER -> << >>

NoneValue == [src |-> None, var |-> None, kind |-> "none"]

Value(code, entry) == [src |-> code, var |-> entry.var, kind |-> entry.kind]

IsCallable(v) == v.kind = "function"

\* bool(v) of a namespace value
ValueTruthy(v) == v.kind # "none"

\* next((v for v in ns.values() if callable(v)), None)
FirstCallable(code) ==
    LET ns == Namespace(code)
        idx == {i \in 1..Len(ns) : ns[i].kind = "function"}
    IN  IF idx = {} THEN NoneValue
        ELSE Value(code, ns[CHOOSE i \in idx : \A j \in idx : i <= j])

\* ns.get(name)
NsGet(code, name) ==
    LET ns == Namespace(code)
        idx == {i \in 1..Len(ns) : ns[i].var = name}
    IN  IF idx = {} THEN NoneValue
        ELSE Value(code, ns[CHOOSE i \in idx : \A j \in idx : j <= i])

\* compile_code(code, function_name): raised, or the value returned
compile_code(code, function_name) ==
    IF Raises(code) THEN [raised |-> TRUE, value |-> NoneValue]
    ELSE [raised |-> FALSE,
          value |-> IF function_name = None THEN FirstCallable(code)
                    ELSE NsGet(code, function_name)]

(* ------------------------------ feedback ------------------------------ *)

NoFeedback == [kind |-> "none", previous_code |-> "", message |-> ""]

\* HumanFeedback(feedback=text, previous_code=code)
HumanFeedback(text, code) == [kind |-> "human", previous_code |-> code, message |-> text]

\* ErrorFeedback(error_message=msg, previous_code=code)
ErrorFeedback(msg, code) == [kind |-> "error", previous_code |-> code, message |-> msg]

\* variant of _error_check without the callable test of line 343
error_check_lenient(code, function_name) ==
    LET c == compile_code(code, function_name)
    IN  IF c.raised /\ ~IsException(ExcClass(code))
        THEN [success |-> FALSE, feedback |-> NoFeedback, raised |-> ExcClass(code)]
        ELSE IF c.raised
        THEN [success |-> FALSE, feedback |-> ErrorFeedback(ExcMessage(code), code),
              raised |-> None]
        ELSE IF c.value = NoneValue
        THEN [success |-> FALSE,
              feedback |-> ErrorFeedback("No function found in the code.", code),
              raised |-> None]
        ELSE [success |-> TRUE, feedback |-> NoFeedback, raised |-> None]

\* Assistant._error_check: (success, feedback), or the exception that
\* "except Exception" (line 349) does not catch
error_check(code, function_name) ==
    LET c == compile_code(code, function_name)
    IN  IF c.raised /\ ~IsException(ExcClass(code))
        THEN [success |-> FALSE, feedback |-> NoFeedback, raised |-> ExcClass(code)]
        ELSE IF c.raised
        THEN [success |-> FALSE, feedback |-> ErrorFeedback(ExcMessage(code), code),
              raised |-> None]
        ELSE IF c.value = NoneValue
        THEN IF function_name = None
             THEN [success |-> FALSE,
                   feedback |-> ErrorFeedback("No function found in the code.", code),
                   raised |-> None]
             ELSE [success |-> FALSE,
                   feedback |-> ErrorFeedback(
                       "Function '" \o function_name \o "' not found in the code.", code),
                   raised |-> None]
        ELSE IF ~IsCallable(c.value)
        THEN [success |-> FALSE,
              feedback |-> ErrorFeedback("'" \o function_name \o "' is not callable.", code),
              raised |-> None]
        ELSE [success |-> TRUE, feedback |-> NoFeedback, raised |-> None]

(* ------------------------------ Workspace ----------------------------- *)
\* paths are relative to cache_root (_cache/autocode); fs maps the files that
\* exist to their text

\* variant of get_code_path_by_path that leaves the call site out
get_code_path_by_path_flat(path, name) == <<"structure", name \o ".py">>

\* Workspace.get_code_path_by_path
get_code_path_by_path(path, name) == <<"structure">> \o path \o <<name \o ".py">>

\* ids_dir / f"{id}.py"
IdFile(id) == <<"ids", id \o ".py">>

\* Workspace.get_code_path_by_id
get_code_path_by_id(fs, id) == IF IdFile(id) \in DOMAIN fs THEN IdFile(id) ELSE NoPath

\* Path.write_text
WriteText(fs, p, code) == [q \in (DOMAIN fs) \cup {p} |-> IF q = p THEN code ELSE fs[q]]

\* variant of save_code_by_id that writes a file lookup does not read
SaveByIdFile_noext(id) == <<"ids", id>>

\* the file Workspace.save_code_by_id writes
SaveByIdFile(id) == <<"ids", id \o ".py">>

\* the file Workspace.save_code_by_name writes
SaveByNameFile(name) == <<"structure", name \o ".py">>

\* the file Workspace.save_code writes; NoPath when it raises ValueError
SaveTarget(id_, name, caller_path) ==
    IF Truthy(id_) THEN SaveByIdFile(id_)
    ELSE IF Truthy(name) THEN SaveByNameFile(name)
    ELSE NoPath

\* the cache key of a request: its identifier, else its call site and name
CacheKey(id, caller_path, name) ==
    IF Truthy(id) THEN [id |-> id, caller_path |-> NoCaller, name |-> None]
    ELSE [id |-> None, caller_path |-> caller_path, name |-> name]

\* variant of lines 84-92 that tries the call-site file first
CachePath_site_first(fs, caller_path, name, id_) ==
    IF caller_path # NoCaller /\ Truthy(name)
       /\ get_code_path_by_path(caller_path, name) \in DOMAIN fs
    THEN get_code_path_by_path(caller_path, name)
    ELSE IF Truthy(id_) THEN get_code_path_by_id(fs, id_)
    ELSE NoPath

\* the cache_path load_cached_code settles on (lines 84-92)
CachePath(fs, caller_path, name, id_) ==
    LET id_file == IF Truthy(id_) THEN get_code_path_by_id(fs, id_) ELSE NoPath
        by_id == IF id_file # NoPath /\ id_file \in DOMAIN fs THEN id_file ELSE NoPath
    IN  IF by_id # NoPath THEN by_id
        ELSE IF caller_path # NoCaller /\ Truthy(name)
                /\ get_code_path_by_path(caller_path, name) \in DOMAIN fs
        THEN get_code_path_by_path(caller_path, name)
        ELSE NoPath

\* variant of load_cached_code that takes a cache file whose execution raises
\* for a miss
load_cached_code_tolerant(fs, caller_path, name, id_) ==
    LET cache_path == CachePath(fs, caller_path, name, id_)
    IN  IF cache_path = NoPath
        THEN [outcome |-> "miss", cache_path |-> NoPath, func |-> NoneValue]
        ELSE LET code == fs[cache_path]
                 byname == IF Truthy(name) THEN NsGet(code, name) ELSE NoneValue
                 func == IF ValueTruthy(byname) THEN byname ELSE FirstCallable(code)
             IN  IF ~Raises(code) /\ ValueTruthy(func)
                 THEN [outcome |-> "hit", cache_path |-> cache_path, func |-> func]
                 ELSE [outcome |-> "miss", cache_path |-> cache_path, func |-> NoneValue]

\* load_cached_code: hit (True, CachedCode(func, path)), miss (False, None), or
\* the exception of exec
load_cached_code(fs, caller_path, name, id_) ==
    LET cache_path == CachePath(fs, caller_path, name, id_)
    IN  IF cache_path = NoPath
        THEN [outcome |-> "miss", cache_path |-> NoPath, func |-> NoneValue]
        ELSE LET code == fs[cache_path]
                 byname == IF Truthy(name) THEN NsGet(code, name) ELSE NoneValue
                 func == IF ValueTruthy(byname) THEN byname ELSE FirstCallable(code)
             IN  IF Raises(code)
                 THEN [outcome |-> "raise", cache_path |-> cache_path, func |-> NoneValue]
                 ELSE IF ValueTruthy(func)
                 THEN [outcome |-> "hit", cache_path |-> cache_path, func |-> func]
                 ELSE [outcome |-> "miss", cache_path |-> cache_path, func |-> NoneValue]

(* ------------------------------ artifacts ----------------------------- *)

\* Context.create(...): the fields the control loop reads
NoCtx == [name |-> None, id |-> None, docstring |-> None, feedbacks |-> << >>]

Context_create(name, id) ==
    [name |-> name, id |-> id, docstring |-> None, feedbacks |-> << >>]

\* func.__doc__ of the decorated functions: f has a docstring, g has none
Docstring(func_name) == IF func_name = "f" THEN "doc of f" ELSE None

\* what an operation hands back to its caller: an artifact, a decorator, or an
\* exception; func is what the artifact's __call__ calls
NoResult ==
    [kind |-> "none", func |-> NoneValue, source_code |-> "", context |-> NoCtx,
     cache_path |-> NoPath, function_name |-> None, exc |-> None]

CompiledCode(func, source_code, context) ==
    [NoResult EXCEPT !.kind = "CompiledCode", !.func = func,
                     !.source_code = source_code, !.context = context]

CachedCode(func, cache_path) ==
    [NoResult EXCEPT !.kind = "CachedCode", !.func = func, !.cache_path = cache_path]

ImportedCode(func) == [NoResult EXCEPT !.kind = "ImportedCode", !.func = func]

DryRunCode(dry_run_fn) == [NoResult EXCEPT !.kind = "DryRunCode", !.func = dry_run_fn]

DecoratorCode(func, function_name) ==
    [NoResult EXCEPT !.kind = "DecoratorCode", !.func = func,
                     !.function_name = function_name]

\* autocode(decorator=True) returned decorator_func / decorator
DecoratorClosure == [NoResult EXCEPT !.kind = "decorator"]

Raised(exc) == [NoResult EXCEPT !.kind = "raised", !.exc = exc]

ArtifactKinds == {"CompiledCode", "CachedCode", "ImportedCode", "DryRunCode", "DecoratorCode"}

\* @functools.wraps(func) def wrapper(*args, **kwargs): return dry_run_fn(*args, **kwargs)
Wrapper(func_name, dry_run_fn) ==
    [src |-> "wrapper", var |-> func_name, kind |-> "function", calls |-> dry_run_fn]

\* the function whose body runs when v is called
Callee(v) == IF "calls" \in DOMAIN v THEN v.calls ELSE v

\* the arguments wrapper hands on
WrapperArgs(args) == args

\* passed: what the caller passed; callee, args: the function that ran and
\* what it received
NoInvocation == [passed |-> << >>, callee |-> NoneValue, args |-> << >>, exc |-> None]

\* BaseGeneratedCode.__call__(*args): self.__func(*args)
CallArtifact(artifact, args) ==
    IF ~IsCallable(artifact.func)
    THEN [passed |-> args, callee |-> NoneValue, args |-> << >>, exc |-> "TypeError"]
    ELSE [passed |-> args, callee |-> Callee(artifact.func),
          args |-> IF "calls" \in DOMAIN artifact.func THEN WrapperArgs(args) ELSE args,
          exc |-> None]

(* ------------------------------ requests ------------------------------ *)

\* bool | None arguments
OptBools == {None, "True", "False"}

\* variant of the default resolution that reads None as False
OrDefault_none_is_false(v, default) == v = "True"

\* "if v is None: v = default"
OrDefault(v, default) == IF v = None THEN default ELSE v = "True"

NoOverride == << >>

RECURSIVE JoinColon(_)
JoinColon(parts) ==
    IF Len(parts) = 0 THEN ""
    ELSE IF Len(parts) = 1 THEN parts[1]
    ELSE parts[1] \o ":" \o JoinColon(Tail(parts))

\* lines 177-183: mod, fn = override.rsplit(":", 1); __import__; getattr
ResolveOverride(override) ==
    IF Len(override) < 2
    THEN [outcome |-> "ValueError", func |-> NoneValue]
    ELSE LET mod == JoinColon(SubSeq(override, 1, Len(override) - 1))
             fn == override[Len(override)]
         IN  IF mod \notin Modules
             THEN [outcome |-> "ImportError", func |-> NoneValue]
             ELSE IF fn \notin ModuleAttrs(mod)
             THEN [outcome |-> "AttributeError", func |-> NoneValue]
             ELSE [outcome |-> "ok",
                   func |-> [src |-> mod, var |-> fn, kind |-> "function"]]

(* ----------------------------- OpenAIAgent ----------------------------- *)

\* a prompt is the sequence of its lines; a line is <<label, text>>

RECURSIVE FeedbackLines(_)
\* generate_prompt, lines 65-71: the lines of the feedbacks, in list order
FeedbackLines(fbs) ==
    IF fbs = << >> THEN << >>
    ELSE LET fb == Head(fbs)
         IN  (CASE fb.kind = "human" ->
                       << <<"- Previous Code:", fb.previous_code>>,
                          <<"- Human: ", fb.message>> >>
                [] fb.kind = "error" -> << <<"- Error: ", fb.message>> >>
                [] OTHER -> << >>)
             \o FeedbackLines(Tail(fbs))

\* variant of the feedback section that keeps the newest feedback only
FeedbackSection_newest_only(fbs) ==
    IF fbs = << >> THEN << >>
    ELSE << <<"### Feedbacks", "">> >> \o FeedbackLines(<<fbs[Len(fbs)]>>)

\* generate_prompt, lines 63-71
FeedbackSection(fbs) ==
    IF fbs = << >> THEN << >>
    ELSE << <<"### Feedbacks", "">> >> \o FeedbackLines(fbs)

\* OpenAIAgent.generate_prompt for a Context made by Context.create with no
\* description, parameters or return type: args and kwargs are empty lists
generate_prompt(c) ==
    (IF Truthy(c.name) THEN << <<"### Function Name", c.name>> >> ELSE << >>)
    \o (IF Truthy(c.id) THEN << <<"### ID: ", c.id>> >> ELSE << >>)
    \o (IF Truthy(c.docstring) THEN << <<"### Docstring", c.docstring>> >> ELSE << >>)
    \o << <<"### Parameters", "">>,
          <<"- No positional arguments", "">>,
          <<"- No keyword arguments", "">> >>
    \o FeedbackSection(c.feedbacks)

\* the request an agent builds: only OpenAIAgent's is known
NoRequest == << >>

AgentRequest(agent, c) == IF agent = "OpenAIAgent" THEN generate_prompt(c) ELSE NoRequest

\* a response of the model is a sequence of pieces of text
\* the three backticks of a code fence
Fence == "<fence>"

Newline == "\n"

Whitespace == {" ", Newline}

\* longest response drawn
MaxResponseLen == 5

Pieces == {Fence, "python", "py", Newline, " ", "x"}

RECURSIVE SeqsUpTo(_, _)
SeqsUpTo(S, n) ==
    IF n = 0 THEN {<< >>}
    ELSE LET shorter == SeqsUpTo(S, n - 1)
         IN  shorter \cup {Append(q, x) : q \in {r \in shorter : Len(r) = n - 1}, x \in S}

Responses == SeqsUpTo(Pieces, MaxResponseLen)

RECURSIVE lstrip(_)
lstrip(t) == IF t # << >> /\ Head(t) \in Whitespace THEN lstrip(Tail(t)) ELSE t

RECURSIVE rstrip(_)
rstrip(t) ==
    IF t # << >> /\ t[Len(t)] \in Whitespace THEN rstrip(SubSeq(t, 1, Len(t) - 1)) ELSE t

\* str.strip()
strip(t) == rstrip(lstrip(t))

\* where r"```(?:python)?\n" matches at position i: the position after the
\* match, 0 when it does not match there
OpeningEnd(content, i) ==
    IF content[i] # Fence THEN 0
    ELSE IF i + 1 <= Len(content) /\ content[i + 1] = Newline THEN i + 2
    ELSE IF /\ i + 2 <= Len(content)
            /\ content[i + 1] = "python"
            /\ content[i + 2] = Newline THEN i + 3
    ELSE 0

\* where the lazy group "(.*?)" starting at s stops: at the first of the next
\* fence and "$", which matches at the end and before a final newline
GroupEnd(content, s) ==
    LET n == Len(content)
        stops == {e \in s..n : content[e] = Fence}
                 \cup {n + 1}
                 \cup (IF n >= s /\ content[n] = Newline THEN {n} ELSE {})
    IN  CHOOSE e \in stops : \A o \in stops : e <= o

\* variant of the extraction that returns the stripped response always
extract_code_raw(content) == strip(content)

\* generate_code, lines 91-92 (extract_code of prototype.py):
\*   m = re.search(r"```(?:python)?\n(.*?)(?:```|$)", content, re.S)
\*   return m.group(1).strip() if m else content.strip()
extract_code(content) ==
    LET starts == {i \in 1..Len(content) : OpeningEnd(content, i) # 0}
    IN  IF starts = {} THEN strip(content)
        ELSE LET i == CHOOSE k \in starts : \A o \in starts : k <= o
                 s == OpeningEnd(content, i)
             IN  strip(SubSeq(content, s, GroupEnd(content, s) - 1))

NoResponse == [state |-> "idle", content |-> << >>, code |-> << >>]

(* ----------------------- concurrent invocations ----------------------- *)

\* texts of the race are sequences of lines
ShortSource == <<"def f(): return 1">>

LongSource == <<"def f():", "    return 2">>

BrokenSource == <<"def f(:">>

RaceSources == {ShortSource, LongSource, BrokenSource}

\* _error_check of these texts: exec succeeds and f is a function
RaceValid(text) == text \in {ShortSource, LongSource}

Procs == {1, 2}

\* attempts of one invocation
MaxRaceAttempts == 2

NoFile == <<"<no file>">>

\* a write of data at offset 0 of a file holding existing
Overlay(existing, data) == data \o SubSeq(existing, Len(data) + 1, Len(existing))

NoProc == [pc |-> "off", code |-> << >>, attempts |-> 0, failed |-> {}, result |-> "none"]

NoRace == [file |-> NoFile, proc |-> [p \in Procs |-> NoProc], writers |-> << >>]

(* ------------- Workspace.save_code on directories and files ----------- *)
\* a path is the sequence of its components below the cache root, << >> the
\* cache root itself; an id or a name is the sequence of the parts its path
\* separators split it into, << >> when it is None or empty

\* how many save_code calls a run makes
MaxSaves == 2

NoKey == << >>

\* "i3" and "d/i3"
SaveIds == {<<"i3">>, <<"d", "i3">>}

\* "f" and "d/f"
SaveNames == {<<"f">>, <<"d", "f">>}

\* dir / f"{key}.py"
JoinFile(dir, key) ==
    dir \o [k \in 1..Len(key) |-> IF k = Len(key) THEN key[k] \o ".py" ELSE key[k]]

Parent(path) == SubSeq(path, 1, Len(path) - 1)

\* Path.mkdir(parents=True, exist_ok=True)
mkdir_parents(dirs, dir) == dirs \cup {SubSeq(dir, 1, k) : k \in 0..Len(dir)}

\* Path.write_text: open(path, "w") needs the parent directory
write_text(d, path, code) ==
    IF Parent(path) \in d.dirs
    THEN [dirs |-> d.dirs, files |-> WriteText(d.files, path, code), raised |-> None]
    ELSE [dirs |-> d.dirs, files |-> d.files, raised |-> "FileNotFoundError"]

\* Workspace.save_code_by_id (lines 43-50)
save_code_by_id(d, id, code) ==
    write_text([d EXCEPT !.dirs = mkdir_parents(@, <<"ids">>)],
               JoinFile(<<"ids">>, id), code)

\* Workspace.save_code_by_name (lines 52-59)
save_code_by_name(d, name, code) ==
    write_text([d EXCEPT !.dirs = mkdir_parents(@, <<"structure">>)],
               JoinFile(<<"structure">>, name), code)

\* Workspace.save_code (lines 61-74)
save_code(d, code, id_, name) ==
    IF id_ # NoKey THEN save_code_by_id(d, id_, code)
    ELSE IF name # NoKey THEN save_code_by_name(d, name, code)
    ELSE [dirs |-> d.dirs, files |-> d.files, raised |-> "ValueError"]

NoSave == [id_ |-> NoKey, name |-> NoKey, code |-> "", raised |-> None]

NoDisk == [dirs |-> {}, files |-> << >>, saves |-> 0, last |-> NoSave]

\* the directories under the cache root before the run: no cache root, an
\* empty one, or what earlier saves left
InitDirs ==
    {{}, {<< >>}, {<< >>, <<"ids">>}, {<< >>, <<"structure">>},
     {<< >>, <<"ids">>, <<"ids", "d">>}, {<< >>, <<"ids">>, <<"structure">>}}

(* ------------- the loop, one execution of the source at a time -------- *)

\* how many Agent calls an invocation of this part makes
MaxRuns == 3

\* a source that defines f after a statement that succeeds once per process
\* ("os.mkdir('out')" before "def f"): its second execution raises
OnceSource == "def_f_once"

AttemptSources == {"def_f", OnceSource, "syntax_error", "f_is_5"}

\* exec(code, ns) raises, done tells whether the once-only statement has run
ExecRaises(text, done) == text = "syntax_error" \/ (text = OnceSource /\ done)

\* the value compile_code(code, "f") returns when exec does not raise
ExecValue(text) ==
    IF text \in {"def_f", OnceSource} THEN "function"
    ELSE IF text = "f_is_5" THEN "int" ELSE "none"

NoAttempt ==
    [pc |-> "off", interactive |-> FALSE, code |-> "", done |-> FALSE, file |-> None,
     calls |-> 0, events |-> << >>, result |-> "none"]

(* ------------------------------ nk_autodoc ---------------------------- *)
\* a text is the sequence of its words; a Context holds references to its two
\* lists, and the lists live in a heap

\* how many entity ids a run generates
MaxEntities == 3

\* the Writer's context, a Context of its caller, and the Context the last
\* copy, merge or Compressor call returned
Slots == {"w", "c", "k"}

DocTexts == {<<"a">>}

\* the list object a Context made by the constructor holds for a field
OwnList(x, field) == <<x, field>>

Entities(d, x) == d.heap[d.ctx[x].entities]

IsActive(d, x) == d.heap[d.ctx[x].is_active_entity]

\* Entity.from_text (line 54), with the id generate_id returned
from_text(id, text, state) == [id_ |-> id, text |-> text, scope_id |-> state.current_scope_id]

\* Context.copy (lines 73-74): the two new lists
Context_copy(entities, is_active) == [entities |-> entities, is_active_entity |-> is_active]

\* Context.merge (lines 76-85): the two new lists
Context_merge(entities, is_active, other_entities, other_is_active) ==
    LET existing_ids == {entities[i].id_ : i \in 1..Len(entities)}
        n == IF Len(other_entities) <= Len(other_is_active) THEN Len(other_entities)
             ELSE Len(other_is_active)
        new[k \in 0..n] ==
            IF k = 0 THEN [entities |-> entities, is_active_entity |-> is_active]
            ELSE IF other_entities[k].id_ \in existing_ids THEN new[k - 1]
            ELSE [entities |-> Append(new[k - 1].entities, other_entities[k]),
                  is_active_entity |-> Append(new[k - 1].is_active_entity, other_is_active[k])]
    IN  new[n]

\* " ".join(entity.text for entity in entities if entity.text)
RECURSIVE JoinTexts(_)
JoinTexts(entities) ==
    IF entities = << >> THEN << >>
    ELSE Head(entities).text \o JoinTexts(Tail(entities))

\* Compressor.__call__ (compressors.py 5-28), with the id generate_id returned
Compressor_call(entities, is_active, state, id) ==
    LET target_scope_ids ==
            IF state.current_scope_id = None THEN state.scope_ids
            ELSE {state.current_scope_id}
        n == IF Len(entities) <= Len(is_active) THEN Len(entities) ELSE Len(is_active)
        valid == {i \in 1..n : is_active[i] /\ entities[i].scope_id \in target_scope_ids}
        IsValid(e) == \E i \in valid : entities[i] = e
        new_entity == [id_ |-> id, text |-> JoinTexts(SelectSeq(entities, IsValid)),
                       scope_id |-> state.current_scope_id]
    IN  [entities |-> Append(entities, new_entity),
         is_active_entity |-> Append([i \in 1..Len(entities) |-> FALSE], TRUE)]

\* the lines of the entities' texts in a prompt (writers.py 40-43, 78-81)
RECURSIVE EntityLines(_)
EntityLines(entities) ==
    IF entities = << >> THEN << >>
    ELSE (IF Head(entities).text # << >> THEN <<Head(entities).text, << >> >> ELSE << >>)
             \o EntityLines(Tail(entities))

\* Writer._generation_prompt (writers.py 32-55)
generation_prompt(entities, text) ==
    <<<<"role: write the part">>, <<"# item">>, text>>
        \o (IF entities # << >>
            THEN <<<<"# existing information">>>> \o EntityLines(entities)
                     \o <<<<"# item (again)">>, text>>
            ELSE << >>)
        \o <<<< >>, <<"# output rules">>>>

\* Writer._plan_prompt (writers.py 70-93)
plan_prompt(entities, text) ==
    <<<<"role: plan">>, <<"# item to plan">>, text>>
        \o (IF entities # << >>
            THEN <<<<"# existing context and plans">>>> \o EntityLines(entities)
                     \o <<<<"# item to plan (again)">>, text, << >> >>
            ELSE << >>)
        \o <<<<"# output rules">>>>

NoOp == [op |-> "none", target |-> "", receiver |-> << >>, other |-> << >>, out |-> << >>,
         prompt |-> << >>]

NoDoc ==
    [heap |-> [r \in {OwnList(x, f) : x \in Slots, f \in {"entities", "is_active_entity"}} |-> << >>],
     ctx |-> [x \in Slots |-> [entities |-> OwnList(x, "entities"),
                               is_active_entity |-> OwnList(x, "is_active_entity")]],
     state |-> [current_scope_id |-> None, scope_ids |-> {}],
     next_id |-> 1,
     brought |-> << >>,   \* the entities the add_context calls were to bring
     last |-> NoOp]       \* the last operation, what it read and returned

(* -------------------------------- state ------------------------------- *)

VARIABLES
    assistant,     \* _default_assistant: the defaults setup_autocode stored
    setup_args,    \* the arguments of the last setup_autocode call
    files,         \* the cache directory: path -> text of each file that exists
    pc,            \* where the current invocation stands
    call,          \* the invocation's arguments, defaults resolved
    ctx,           \* its Context
    code,          \* the code under review or just checked
    feedback,      \* the feedback of the failed attempt
    is_generated,  \* _human_check's flag: the code is the Agent's, not edited
    result,        \* what the last operation returned or raised
    invoked,       \* the last call of the returned artifact
    hist,          \* log of the current invocation
    generated,     \* cache key -> the source the earlier invocations of this run
                   \* persisted for it last
    nCalls,        \* invocations and re-applications started
    resp,          \* OpenAIAgent.generate_code: the model's response and the
                   \* code extracted from it
    race,          \* two invocations of one key running concurrently: the
                   \* cache file and each invocation's position
    disk,          \* Workspace.save_code on a file system with directories:
                   \* the directories and files under the cache root
    attempt,       \* the steps of one invocation of the loop, one execution of
                   \* the source at a time
    doc            \* nk_autodoc: the Contexts of a Writer and of its caller, the
                   \* lists they hold and the WorkingState

vars == <<assistant, setup_args, files, pc, call, ctx, code, feedback, is_generated, result,
          invoked, hist, generated, nCalls, resp, race, disk, attempt, doc>>

\* the state of one Assistant serving one invocation at a time
main_vars == <<assistant, setup_args, files, pc, call, ctx, code, feedback, is_generated, result,
               invoked, hist, generated, nCalls>>

\* Assistant.__init__ (lines 124-130); editor: an Editor is configured;
\* dry_run_fn is not stored
Assistant_init(verbose, interactive, regenerate, agent, editor, dry_run, dry_run_fn) ==
    [verbose |-> verbose, interactive |-> interactive, regenerate |-> regenerate,
     agent |-> agent, editor |-> editor,
     dry_run |-> IF dry_run # None THEN dry_run = "True" ELSE FALSE]

\* setup_autocode (default.py 76-92): the Assistant it builds
setup_autocode(cfg) ==
    Assistant_init(cfg.verbose, cfg.interactive, cfg.regenerate,
                   IF cfg.agent = None THEN "OpenAIAgent" ELSE cfg.agent,
                   cfg.editor, cfg.dry_run, cfg.dry_run_fn)

\* setup_autocode() (default.py 95)
DefaultSetup ==
    [verbose |-> FALSE, interactive |-> FALSE, regenerate |-> FALSE, agent |-> None,
     editor |-> FALSE, dry_run |-> None, dry_run_fn |-> NoneValue]

\* the locals of autocode that outlive the argument handling
NoCall ==
    [id_ |-> None, caller_path |-> NoCaller, interactive |-> FALSE,
     regenerate |-> FALSE, dry_run |-> FALSE, dry_run_fn |-> NoneValue,
     override |-> NoOverride, verbose |-> FALSE, agent |-> None, name |-> None]

\* variant of Editor.edit that returns the file's text whatever the exit status
Editor_edit_keeps_new(c, exit_code, new_code) == <<exit_code = 0, new_code>>

\* Editor.edit (editor.py 9-27): the editor exits with exit_code, leaving
\* new_code in the temporary file
Editor_edit(c, exit_code, new_code) ==
    IF exit_code = 0 THEN <<TRUE, new_code>> ELSE <<FALSE, c>>

\* status: what the command came to; before: the code a command that changed
\* nothing was given; after: the text a command that changed it left
NoEdit == [status |-> "none", before |-> "", after |-> ""]

NoHist ==
    [contexts |-> << >>,      \* ctx.feedbacks as given to each Agent.generate_code call
     checked |-> << >>,       \* the codes _error_check ran on, with its verdict
     reviews |-> << >>,       \* the codes the reviewer accepted ("y") or rejected ("n")
     answers |-> << >>,       \* the answers to "Regenerate code?"
     dry_run_arg |-> None,    \* the dry_run argument as passed
     args |-> [interactive |-> None, regenerate |-> None, verbose |-> None,
               agent |-> None, decorator |-> FALSE],
                              \* the other optional arguments as passed
     func_passed |-> None,    \* __name__ of the decorated function the artifact's
                              \* callable was called with
     agents |-> << >>,        \* the agent of each Agent.generate_code call
     requests |-> << >>,      \* the prompt each of these calls sent
     agent_errors |-> 0,      \* how many of these calls raised
     shown |-> [code |-> None, reason |-> None],
                              \* what this iteration printed, or the reviewer typed
     edit |-> NoEdit,         \* the last "e" command of the review under way
     applied |-> 0,           \* earlier applications of the decorator
     writes |-> << >>,        \* the files written, with their text
     retry_prompts |-> 0,     \* "Regenerate code?" prompts shown
     asked |-> FALSE,         \* some prompt was shown to the operator
     lookup |-> FALSE,        \* load_cached_code was called
     cache_read |-> NoPath,   \* the cache file it executed
     imported |-> FALSE,      \* __import__ was attempted
     decorated |-> None,      \* __name__ of the function the decorator was applied to
     files0 |-> << >>]        \* the cache when the invocation started

\* the cache directory before the run: empty, or the files of an earlier run,
\* one keyed by identifier and one by call site
InitFiles ==
    {[p \in {} |-> ""]}
        \cup {[p \in {IdFile("i1"), get_code_path_by_path(<<"a.py">>, "f")} |->
                   IF p = IdFile("i1") THEN c ELSE "def_f"] :
                  c \in {"def_g_def_f", "syntax_error", "f_is_5"}}

\* the package after import: setup_autocode() has run (default.py 95) and no
\* invocation has started
Imported ==
    /\ assistant = setup_autocode(DefaultSetup)
    /\ setup_args = DefaultSetup
    /\ files \in InitFiles
    /\ pc = "idle"
    /\ call = NoCall
    /\ ctx = NoCtx
    /\ code = ""
    /\ feedback = NoFeedback
    /\ is_generated = TRUE
    /\ result = NoResult
    /\ invoked = NoInvocation
    /\ hist = NoHist
    /\ generated = [k \in {} |-> ""]
    /\ nCalls = 0

Init ==
    /\ Imported
    /\ resp = NoResponse
    /\ race = NoRace
    /\ disk = NoDisk
    /\ attempt = NoAttempt
    /\ doc = NoDoc

(* ------------------------------- actions ------------------------------ *)

\* setup_autocode(...) (default.py 62-92): a new _default_assistant
Setup(cfg) ==
    /\ pc = "idle"
    /\ assistant' = setup_autocode(cfg)
    /\ assistant' # assistant
    /\ setup_args' = cfg
    /\ UNCHANGED <<files, pc, call, ctx, code, feedback, is_generated, result,
                   invoked, hist, generated, nCalls, resp, race, disk, attempt, doc>>

\* the operation returns r to its caller
Return(r, h) ==
    /\ pc' = "done"
    /\ result' = r
    /\ hist' = h

\* Assistant._generate_from_context, lines 238-243: the cache check; a miss
\* enters the generation loop
generate_from_context(c, frame, h) ==
    LET loaded == load_cached_code(files, frame.caller_path, c.name, c.id)
        h1 == [h EXCEPT !.lookup = TRUE, !.cache_read = loaded.cache_path]
    IN  /\ ctx' = c
        /\ call' = frame
        /\ UNCHANGED <<files, code, feedback, is_generated, generated>>
        /\ IF frame.regenerate
           THEN /\ pc' = "agent"
                /\ result' = NoResult
                /\ hist' = h
           ELSE IF loaded.outcome = "hit"
           THEN Return(CachedCode(loaded.func, loaded.cache_path), h1)
           ELSE IF loaded.outcome = "raise"
           THEN Return(Raised("ExecError"), h1)
           ELSE /\ pc' = "agent"
                /\ result' = NoResult
                /\ hist' = h1

\* variant of line 182 that catches ImportError only
Caught_import_only(outcome) == outcome = "ImportError"

\* line 182: except (ImportError, AttributeError): pass
Caught(outcome) == outcome \in {"ImportError", "AttributeError"}

\* variant of lines 186-187 and 210 that always takes the default agent
AgentOr_default_only(agent, default) == default

\* lines 186-187 and 210: agent = self.__agent if None; _agent = agent or self.__agent
AgentOr(agent, default) == IF agent = None THEN default ELSE agent

\* Assistant.autocode (lines 156-226)
Autocode(req) ==
    LET dry == OrDefault(req.dry_run, assistant.dry_run)
        frame == [id_ |-> req.id, caller_path |-> req.caller_path,
                  interactive |-> OrDefault(req.interactive, assistant.interactive),
                  regenerate |-> OrDefault(req.regenerate, assistant.regenerate),
                  dry_run |-> dry, dry_run_fn |-> req.dry_run_fn,
                  override |-> req.override,
                  verbose |-> OrDefault(req.verbose, assistant.verbose),
                  agent |-> AgentOr(req.agent, assistant.agent), name |-> req.name]
        h0 == [NoHist EXCEPT !.files0 = files, !.dry_run_arg = req.dry_run,
                             !.args = [interactive |-> req.interactive,
                                       regenerate |-> req.regenerate,
                                       verbose |-> req.verbose, agent |-> req.agent,
                                       decorator |-> req.decorator]]
        resolved == ResolveOverride(req.override)
        h1 == IF req.override # NoOverride /\ Len(req.override) >= 2
              THEN [h0 EXCEPT !.imported = TRUE] ELSE h0
    IN  /\ pc = "idle"
        /\ nCalls < MaxCalls
        /\ nCalls' = nCalls + 1
        /\ UNCHANGED <<resp, race, disk, attempt, doc>>
        /\ invoked' = NoInvocation
        /\ UNCHANGED <<assistant, setup_args, setup_args>>
        /\ IF dry
           THEN /\ call' = frame
                /\ UNCHANGED <<files, ctx, code, feedback, is_generated, generated>>
                /\ IF req.dry_run_fn = NoneValue THEN Return(Raised("ValueError"), h0)
                   ELSE IF req.decorator
                   THEN /\ pc' = "decorator"
                        /\ result' = DecoratorClosure
                        /\ hist' = h0
                   ELSE Return(DryRunCode(req.dry_run_fn), h0)
           ELSE IF req.override # NoOverride /\ resolved.outcome = "ok"
           THEN /\ call' = frame
                /\ UNCHANGED <<files, ctx, code, feedback, is_generated, generated>>
                /\ Return(ImportedCode(resolved.func), h1)
           ELSE IF req.override # NoOverride /\ ~Caught(resolved.outcome)
           THEN /\ call' = frame
                /\ UNCHANGED <<files, ctx, code, feedback, is_generated, generated>>
                /\ Return(Raised(resolved.outcome), h1)
           ELSE IF req.decorator
           THEN /\ call' = frame
                /\ ctx' = Context_create(req.name, req.id)
                /\ pc' = "decorator"
                /\ result' = DecoratorClosure
                /\ hist' = h1
                /\ UNCHANGED <<files, code, feedback, is_generated, generated>>
           ELSE generate_from_context(Context_create(req.name, req.id), frame, h1)

\* variant of the decorator that does not seed the Context from the function
Decorate_unseeded(func_name) ==
    /\ pc = "decorator"
    /\ UNCHANGED <<assistant, setup_args, invoked, nCalls, resp, race, disk, attempt, doc>>
    /\ IF call.dry_run
       THEN /\ Return(DecoratorCode(Wrapper(func_name, call.dry_run_fn), func_name),
                      [hist EXCEPT !.decorated = func_name])
            /\ UNCHANGED <<files, call, ctx, code, feedback, is_generated, generated>>
       ELSE generate_from_context(ctx, call, [hist EXCEPT !.decorated = func_name])

\* the decorator autocode(decorator=True) returned is applied to a function:
\* decorator_func (lines 163-168) or _autocode_decorator.decorator (280-293)
Decorate(func_name) ==
    /\ pc = "decorator"
    /\ UNCHANGED <<assistant, setup_args, invoked, nCalls, resp, race, disk, attempt, doc>>
    /\ IF call.dry_run
       THEN /\ Return(DecoratorCode(Wrapper(func_name, call.dry_run_fn), func_name),
                      [hist EXCEPT !.decorated = func_name])
            /\ UNCHANGED <<files, call, ctx, code, feedback, is_generated, generated>>
       ELSE generate_from_context([ctx EXCEPT !.name = func_name,
                                              !.docstring = Docstring(func_name)], call,
                                  [hist EXCEPT !.decorated = func_name])

\* lines 256-269 for a code that was not rejected: the error check, then the
\* cache write and the compiled artifact, or the retry prompt
check_and_finish(c, h) ==
    LET checked == error_check(c, ctx.name)
        h1 == [h EXCEPT !.checked = Append(@, [code |-> c, success |-> checked.success]),
                        \* lines 333-351: the failure is printed if verbose
                        !.shown.reason = IF ~checked.success /\ checked.raised = None /\ call.verbose
                                         THEN checked.feedback.message ELSE @]
        target == SaveTarget(call.id_, ctx.name, call.caller_path)
    IN  /\ code' = c
        /\ UNCHANGED <<ctx, call>>
        /\ IF checked.raised # None
           THEN /\ Return(Raised(checked.raised), h1)
                /\ UNCHANGED <<files, feedback, generated>>
           ELSE IF ~checked.success
           THEN /\ pc' = "retry"
                /\ feedback' = checked.feedback
                /\ result' = NoResult
                /\ hist' = [h1 EXCEPT !.retry_prompts = @ + 1, !.asked = TRUE]
                /\ UNCHANGED <<files, generated>>
           ELSE IF target = NoPath
           THEN /\ Return(Raised("ValueError"), h1)
                /\ UNCHANGED <<files, feedback, generated>>
           ELSE /\ files' = WriteText(files, target, c)
                /\ UNCHANGED generated
                /\ Return(CompiledCode(compile_code(c, ctx.name).value, c, ctx),
                          [h1 EXCEPT !.writes = Append(@, [file |-> target, code |-> c])])
                /\ UNCHANGED feedback

\* line 246: agent.generate_code(ctx) returns src
AgentGenerate(src) ==
    LET h == [hist EXCEPT !.contexts = Append(@, ctx.feedbacks),
                          !.agents = Append(@, call.agent),
                          !.requests = Append(@, AgentRequest(call.agent, ctx)),
                          \* lines 247-248 and 300-301: the code is printed
                          !.shown = [code |-> IF call.interactive \/ call.verbose
                                              THEN src ELSE None,
                                     reason |-> None]]
    IN  /\ pc = "agent"
        /\ UNCHANGED <<assistant, setup_args, invoked, nCalls, resp, race, disk, attempt, doc>>
        /\ IF call.interactive
           THEN /\ pc' = "human"
                /\ code' = src
                /\ is_generated' = TRUE
                /\ hist' = [h EXCEPT !.asked = TRUE]
                /\ UNCHANGED <<files, call, ctx, feedback, result, generated>>
           ELSE /\ check_and_finish(src, h)
                /\ UNCHANGED is_generated

\* variant of line 246 that turns the Agent's exception into a feedback
AgentRaises_as_feedback ==
    /\ pc = "agent"
    /\ pc' = "retry"
    /\ feedback' = ErrorFeedback("agent error", code)
    /\ hist' = [hist EXCEPT !.contexts = Append(@, ctx.feedbacks),
                            !.agents = Append(@, call.agent),
                            !.requests = Append(@, AgentRequest(call.agent, ctx)),
                            !.agent_errors = @ + 1,
                            !.retry_prompts = @ + 1]
    /\ UNCHANGED <<assistant, setup_args, files, call, ctx, code, is_generated, result, invoked,
                   generated, nCalls, resp, race, disk, attempt, doc>>

\* line 246: agent.generate_code(ctx) raises
AgentRaises ==
    /\ pc = "agent"
    /\ Return(Raised("AgentError"),
              [hist EXCEPT !.contexts = Append(@, ctx.feedbacks),
                           !.agents = Append(@, call.agent),
                           !.requests = Append(@, AgentRequest(call.agent, ctx)),
                           !.agent_errors = @ + 1])
    /\ UNCHANGED <<assistant, setup_args, files, call, ctx, code, feedback, is_generated, invoked,
                   generated, nCalls, resp, race, disk, attempt, doc>>

\* _human_check, command "y" (line 315), then lines 256-269
HumanAccept ==
    /\ pc = "human"
    /\ check_and_finish(code, [hist EXCEPT !.reviews = Append(@, [code |-> code, verdict |-> "y"]),
                                           !.edit = NoEdit])
    /\ is_generated' = TRUE
    /\ UNCHANGED <<assistant, setup_args, invoked, nCalls, resp, race, disk, attempt, doc>>

\* variant of command "e" that drops what the editor returned
HumanEdit_discarded(exit_code, new_code) ==
    LET edited == Editor_edit(code, exit_code, new_code)
    IN  /\ pc = "human"
        /\ IF ~assistant.editor
           THEN /\ hist' = [hist EXCEPT !.edit = [status |-> "no_editor", before |-> code,
                                                     after |-> ""]]
                /\ UNCHANGED <<is_generated, code>>
           ELSE IF edited[1]
           THEN /\ is_generated' = FALSE
                /\ code' = code
                /\ hist' = [hist EXCEPT !.edit = [status |-> "edited", before |-> "",
                                                     after |-> new_code]]
           ELSE /\ hist' = [hist EXCEPT !.edit = [status |-> "failed", before |-> code,
                                                     after |-> ""]]
                /\ UNCHANGED <<is_generated, code>>
        /\ UNCHANGED <<assistant, setup_args, files, pc, call, ctx, feedback, result,
                       invoked, generated, nCalls, resp, race, disk, attempt, doc>>

\* _human_check, command "e" (lines 316-324): the editor returns new_code, or
\* fails, or there is none; the reviewer is prompted again
HumanEdit(exit_code, new_code) ==
    LET edited == Editor_edit(code, exit_code, new_code)
    IN  /\ pc = "human"
        /\ IF ~assistant.editor
           THEN /\ hist' = [hist EXCEPT !.edit = [status |-> "no_editor", before |-> code,
                                                     after |-> ""]]
                /\ UNCHANGED <<is_generated, code>>
           ELSE IF edited[1]
           THEN /\ is_generated' = FALSE
                /\ code' = edited[2]
                /\ hist' = [hist EXCEPT !.edit = [status |-> "edited", before |-> "",
                                                     after |-> new_code],
                                        !.shown.code = edited[2]]
           ELSE /\ hist' = [hist EXCEPT !.edit = [status |-> "failed", before |-> code,
                                                     after |-> ""]]
                /\ UNCHANGED <<is_generated, code>>
        /\ UNCHANGED <<assistant, setup_args, files, pc, call, ctx, feedback, result,
                       invoked, generated, nCalls, resp, race, disk, attempt, doc>>

\* variant of command "n" that runs the error check on the rejected code
HumanReject_checked(feedback_text) ==
    /\ pc = "human"
    /\ pc' = "retry"
    /\ feedback' = HumanFeedback(feedback_text, code)
    /\ hist' = [hist EXCEPT !.retry_prompts = @ + 1,
                            !.reviews = Append(@, [code |-> code, verdict |-> "n"]),
                            !.shown.reason = feedback_text,
                            !.checked = Append(@, [code |-> code,
                                                   success |-> error_check(code, ctx.name).success]),
                            !.edit = NoEdit]
    /\ is_generated' = TRUE
    /\ UNCHANGED <<assistant, setup_args, files, call, ctx, code, result, invoked, generated, nCalls, resp, race, disk, attempt, doc>>

\* _human_check, command "n" (lines 325-327), then the retry prompt (line 262)
HumanReject(feedback_text) ==
    /\ pc = "human"
    /\ pc' = "retry"
    /\ feedback' = HumanFeedback(feedback_text, code)
    /\ hist' = [hist EXCEPT !.retry_prompts = @ + 1,
                            !.reviews = Append(@, [code |-> code, verdict |-> "n"]),
                            !.shown.reason = feedback_text,
                            !.edit = NoEdit]
    /\ is_generated' = TRUE
    /\ UNCHANGED <<assistant, setup_args, files, call, ctx, code, result, invoked, generated, nCalls, resp, race, disk, attempt, doc>>

\* variant of lines 264-265 that appends nothing
append_feedback_dropped(c, fb) == c

\* lines 264-265: if feedback: ctx.feedbacks.append(feedback)
append_feedback(c, fb) ==
    IF fb # NoFeedback THEN [c EXCEPT !.feedbacks = Append(@, fb)] ELSE c

\* variant of lines 262-265 that appends the feedback before it raises
RetryNo_appends ==
    /\ pc = "retry"
    /\ ctx' = append_feedback(ctx, feedback)
    /\ Return(Raised("GiveUpGenerationError"), [hist EXCEPT !.answers = Append(@, "n")])
    /\ UNCHANGED <<assistant, setup_args, files, call, code, feedback, is_generated, invoked,
                   generated, nCalls, resp, race, disk, attempt, doc>>

\* lines 262-263: the operator answers no
RetryNo ==
    /\ pc = "retry"
    /\ Return(Raised("GiveUpGenerationError"), [hist EXCEPT !.answers = Append(@, "n")])
    /\ UNCHANGED <<assistant, setup_args, files, call, ctx, code, feedback, is_generated, invoked,
                   generated, nCalls, resp, race, disk, attempt, doc>>

\* variant of lines 262-265 with a bound of one attempt: the loop gives up
\* though the operator answered yes
RetryYes_gives_up ==
    /\ pc = "retry"
    /\ Return(Raised("GiveUpGenerationError"), [hist EXCEPT !.answers = Append(@, "y")])
    /\ UNCHANGED <<assistant, setup_args, files, call, ctx, code, feedback, is_generated, invoked,
                   generated, nCalls, resp, race, disk, attempt, doc>>

\* lines 262-265: the operator answers yes; the loop starts over
RetryYes ==
    /\ pc = "retry"
    /\ Len(hist.contexts) < MaxAttempts
    /\ pc' = "agent"
    /\ ctx' = append_feedback(ctx, feedback)
    /\ hist' = [hist EXCEPT !.answers = Append(@, "y")]
    /\ UNCHANGED <<assistant, setup_args, files, call, code, feedback, is_generated, result,
                   invoked, generated, nCalls, resp, race, disk, attempt, doc>>

\* the function a decorator is applied to
DecoratedFunction(func_name) == [src |-> "caller", var |-> func_name, kind |-> "function"]

\* "@autocode(decorator=True, override=...)" over "def func_name": Python calls
\* what autocode returned with the function; when that is the ImportedCode of
\* line 180, ImportedCode.__call__ calls the imported function with it
ApplyImported(func_name) ==
    /\ pc = "done"
    /\ hist.args.decorator
    /\ hist.decorated = None
    /\ result.kind = "ImportedCode"
    /\ invoked = NoInvocation
    /\ invoked' = CallArtifact(result, <<DecoratedFunction(func_name)>>)
    /\ hist' = [hist EXCEPT !.func_passed = func_name]
    /\ UNCHANGED <<assistant, setup_args, files, pc, call, ctx, code, feedback, is_generated,
                   result, generated, nCalls, resp, race, disk, attempt, doc>>

\* the caller calls the artifact it was handed
Invoke(args) ==
    /\ pc = "done"
    /\ result.kind \in ArtifactKinds
    /\ ~(hist.args.decorator /\ hist.decorated = None)
    /\ invoked = NoInvocation
    /\ invoked' = CallArtifact(result, args)
    /\ UNCHANGED <<assistant, setup_args, files, pc, call, ctx, code, feedback, is_generated,
                   result, hist, generated, nCalls, resp, race, disk, attempt, doc>>

\* generated, with what the invocation that ends persisted
Persisted ==
    IF hist.writes = << >> THEN generated
    ELSE LET key == CacheKey(ctx.id, call.caller_path, ctx.name)
         IN  [k \in (DOMAIN generated) \cup {key} |->
                  IF k = key THEN hist.writes[Len(hist.writes)].code ELSE generated[k]]

\* the caller goes on: the invocation's frame is gone
Proceed ==
    /\ pc \in {"done", "decorator"}
    /\ pc' = "idle"
    /\ call' = NoCall
    /\ ctx' = NoCtx
    /\ code' = ""
    /\ feedback' = NoFeedback
    /\ is_generated' = TRUE
    /\ result' = NoResult
    /\ invoked' = NoInvocation
    /\ hist' = NoHist
    /\ generated' = Persisted
    /\ UNCHANGED <<assistant, setup_args, files, nCalls, resp, race, disk, attempt, doc>>

\* the decorator that was applied (lines 280-293, 163-168) is applied to another
\* function: ctx.copy() is shallow, the copy's feedbacks is the list of ctx
Reapply ==
    /\ pc = "done"
    /\ hist.decorated # None
    /\ hist.applied + 1 < MaxApplications
    /\ nCalls < MaxCalls
    /\ nCalls' = nCalls + 1
    /\ UNCHANGED <<resp, race, disk, attempt, doc>>
    /\ pc' = "decorator"
    /\ ctx' = [ctx EXCEPT !.name = call.name, !.docstring = None]
    /\ code' = ""
    /\ feedback' = NoFeedback
    /\ is_generated' = TRUE
    /\ result' = DecoratorClosure
    /\ invoked' = NoInvocation
    /\ hist' = [NoHist EXCEPT !.files0 = files, !.dry_run_arg = hist.dry_run_arg,
                              !.args = hist.args, !.applied = hist.applied + 1]
    /\ generated' = Persisted
    /\ UNCHANGED <<assistant, setup_args, files, call>>

\* the arguments of the setup_autocode calls: those of src/samples, editor
\* standing for an EDITOR in the environment
SetupConfigs ==
    {DefaultSetup,
     [DefaultSetup EXCEPT !.verbose = TRUE, !.interactive = TRUE, !.regenerate = TRUE,
                          !.editor = TRUE, !.agent = "agent_s"],
     [DefaultSetup EXCEPT !.dry_run = "True", !.dry_run_fn = Stub]}

Request(name, id, caller_path, override, regenerate, interactive, decorator, dry_run, fn) ==
    [name |-> name, id |-> id, caller_path |-> caller_path, override |-> override,
     regenerate |-> regenerate, interactive |-> interactive, decorator |-> decorator,
     dry_run |-> dry_run, dry_run_fn |-> fn, verbose |-> None, agent |-> None]

\* name, id and call site of the requests
Keys ==
    {<<"f", None, <<"a.py">> >>, <<"f", None, <<"pkg", "b.py">> >>,
     <<None, None, <<"a.py">> >>, <<"f", "i1", <<"a.py">> >>,
     <<"g", "i1", <<"pkg", "b.py">> >>, <<"f", "i2", <<"a.py">> >>}

\* the autocode calls of the run
Requests ==
    \* generation without a reviewer
    {Request(k[1], k[2], k[3], NoOverride, r, "False", FALSE, "False", NoneValue) :
         k \in Keys, r \in {"True", "False"}}
    \* generation with a reviewer
    \cup {Request("f", "i1", <<"a.py">>, NoOverride, "False", "True", FALSE, "False", NoneValue)}
    \* every flag left to the defaults
    \cup {Request("f", "i1", <<"a.py">>, NoOverride, None, None, TRUE, None, Stub),
          Request("f", "i1", <<"a.py">>, NoOverride, None, None, FALSE, None, NoneValue)}
    \* an agent and a verbosity of its own
    \cup {[Request("f", "i1", <<"a.py">>, NoOverride, "False", "False", FALSE, None, NoneValue)
               EXCEPT !.agent = "agent_c", !.verbose = v] : v \in OptBools}
    \* dry run
    \cup {Request("f", "i1", <<"a.py">>, o, "False", "False", d, "True", fn) :
              o \in {NoOverride, <<"mod_a", "fn">>}, d \in BOOLEAN,
              fn \in {NoneValue, Stub}}
    \* override
    \cup {Request("f", "i1", <<"a.py">>, o, r, "False", FALSE, "False", NoneValue) :
              o \in Overrides, r \in {"True", "False"}}
    \cup {Request("f", "i1", <<"a.py">>, <<"mod_a", "fn">>, "False", "False", TRUE,
                  "False", NoneValue)}

Next ==
    \/ \E cfg \in SetupConfigs : Setup(cfg)
    \/ \E req \in Requests : Autocode(req)
    \/ \E func_name \in Names : Decorate(func_name)
    \/ \E src \in AgentSources : AgentGenerate(src)
    \/ AgentRaises
    \/ HumanAccept
    \/ \E exit_code \in ExitCodes, new_code \in EditorTexts : HumanEdit(exit_code, new_code)
    \/ \E text \in FeedbackTexts : HumanReject(text)
    \/ RetryNo
    \/ RetryYes
    \/ \E args \in ArgTuples : Invoke(args)
    \/ \E func_name \in Names : ApplyImported(func_name)
    \/ Proceed
    \/ Reapply

Spec == Init /\ [][Next]_vars

\* the calls of the loop block but return: the Agent answers or raises (line
\* 246), the reviewer ends the review with y or n (lines 315, 325-327), the
\* operator answers the retry prompt (line 262)
LiveSpec ==
    /\ Spec
    /\ WF_vars((\E src \in AgentSources : AgentGenerate(src)) \/ AgentRaises)
    /\ WF_vars(HumanAccept \/ \E text \in FeedbackTexts : HumanReject(text))
    /\ WF_vars(RetryNo \/ RetryYes)


(* ------------------ OpenAIAgent.generate_code, alone ------------------ *)

AgentInit ==
    /\ Imported
    /\ files = [k \in {} |-> ""]
    /\ resp = NoResponse
    /\ race = NoRace
    /\ disk = NoDisk
    /\ attempt = NoAttempt
    /\ doc = NoDoc

\* lines 78-90: the model answers
Respond(content) ==
    /\ resp.state = "idle"
    /\ resp' = [state |-> "received", content |-> content, code |-> << >>]
    /\ UNCHANGED <<main_vars, race, disk, attempt, doc>>

\* lines 91-92: the code is extracted and returned
ExtractCode ==
    /\ resp.state = "received"
    /\ resp' = [resp EXCEPT !.state = "returned", !.code = extract_code(resp.content)]
    /\ UNCHANGED <<main_vars, race, disk, attempt, doc>>

AgentNext ==
    \/ \E content \in Responses : Respond(content)
    \/ ExtractCode

AgentSpec == AgentInit /\ [][AgentNext]_vars

(* ------------- two invocations of one key, run concurrently ------------ *)

\* both invocations are of autocode(name="f", id="i1") with regenerate=False,
\* not interactive, and the cache is empty
RaceInit ==
    /\ Imported
    /\ files = [k \in {} |-> ""]
    /\ resp = NoResponse
    /\ race = [NoRace EXCEPT !.proc = [p \in Procs |-> [NoProc EXCEPT !.pc = "lookup"]]]
    /\ disk = NoDisk
    /\ attempt = NoAttempt
    /\ doc = NoDoc

RaceStep(p, q) == race' = [race EXCEPT !.proc[p] = q]

\* lines 238-243 and load_cached_code: no file is a miss; a file is read and
\* executed: a loaded function is returned, a text without one is a miss, a
\* text that does not execute raises
Lookup(p) ==
    LET me == race.proc[p]
    IN  /\ me.pc = "lookup"
        /\ RaceStep(p, IF race.file = NoFile \/ race.file = << >>
                       THEN [me EXCEPT !.pc = "agent"]
                       ELSE IF RaceValid(race.file)
                       THEN [me EXCEPT !.pc = "done", !.result = "CachedCode"]
                       ELSE [me EXCEPT !.pc = "done", !.result = "raised"])
        /\ UNCHANGED <<main_vars, resp, disk, attempt, doc>>

\* line 246: the Agent returns a source
Generate(p, src) ==
    LET me == race.proc[p]
    IN  /\ me.pc = "agent"
        /\ RaceStep(p, [me EXCEPT !.pc = "check", !.code = src, !.attempts = @ + 1])
        /\ UNCHANGED <<main_vars, resp, disk, attempt, doc>>

\* lines 256-260: _error_check
Validate(p) ==
    LET me == race.proc[p]
    IN  /\ me.pc = "check"
        /\ RaceStep(p, IF RaceValid(me.code)
                       THEN [me EXCEPT !.pc = "open"]
                       ELSE [me EXCEPT !.pc = "retry", !.failed = @ \cup {me.code}])
        /\ UNCHANGED <<main_vars, resp, disk, attempt, doc>>

\* lines 262-265: "Regenerate code?"
Retry(p, answer) ==
    LET me == race.proc[p]
    IN  /\ me.pc = "retry"
        /\ answer => me.attempts < MaxRaceAttempts
        /\ RaceStep(p, IF answer
                       THEN [me EXCEPT !.pc = "agent"]
                       ELSE [me EXCEPT !.pc = "done", !.result = "raised"])
        /\ UNCHANGED <<main_vars, resp, disk, attempt, doc>>

\* save_code_by_id, line 46: write_text opens the file with mode "w", which
\* creates it or truncates it
OpenForWrite(p) ==
    LET me == race.proc[p]
    IN  /\ me.pc = "open"
        /\ race' = [race EXCEPT !.file = << >>, !.proc[p] = [me EXCEPT !.pc = "write"]]
        /\ UNCHANGED <<main_vars, resp, disk, attempt, doc>>

\* write_text writes the text at the start of the file and closes it; lines
\* 268-269: the CompiledCode is returned
Write(p) ==
    LET me == race.proc[p]
    IN  /\ me.pc = "write"
        /\ race' = [race EXCEPT !.file = Overlay(race.file, me.code),
                                !.writers = Append(@, p),
                                !.proc[p] = [me EXCEPT !.pc = "done",
                                                       !.result = "CompiledCode"]]
        /\ UNCHANGED <<main_vars, resp, disk, attempt, doc>>

RaceNext ==
    \/ \E p \in Procs : Lookup(p)
    \/ \E p \in Procs, src \in RaceSources : Generate(p, src)
    \/ \E p \in Procs : Validate(p)
    \/ \E p \in Procs, answer \in BOOLEAN : Retry(p, answer)
    \/ \E p \in Procs : OpenForWrite(p)
    \/ \E p \in Procs : Write(p)

RaceSpec == RaceInit /\ [][RaceNext]_vars

(* ------------------- saves on directories and files ------------------- *)

SaveInit ==
    /\ Imported
    /\ files = [k \in {} |-> ""]
    /\ resp = NoResponse
    /\ race = NoRace
    /\ disk \in {[NoDisk EXCEPT !.dirs = dirs] : dirs \in InitDirs}
    /\ attempt = NoAttempt
    /\ doc = NoDoc

\* line 267: self.__workspace.save_code(code=code, id_=id_, name=ctx.name, ...)
SaveCode(id_, name, c) ==
    LET saved == save_code(disk, c, id_, name)
    IN  /\ disk.saves < MaxSaves
        /\ disk' = [dirs |-> saved.dirs, files |-> saved.files, saves |-> disk.saves + 1,
                    last |-> [id_ |-> id_, name |-> name, code |-> c,
                              raised |-> saved.raised]]
        /\ UNCHANGED <<main_vars, resp, race, attempt, doc>>

SaveNext ==
    \E id_ \in SaveIds \cup {NoKey}, name \in SaveNames \cup {NoKey}, c \in {"def_f", "def_g"} :
        SaveCode(id_, name, c)

SaveSpec == SaveInit /\ [][SaveNext]_vars

(* ------------- the loop, one execution of the source at a time -------- *)

\* _generate_from_context entered after a cache miss, or with regenerate
AttemptInit ==
    /\ Imported
    /\ files = [k \in {} |-> ""]
    /\ resp = NoResponse
    /\ race = NoRace
    /\ disk = NoDisk
    /\ attempt \in {[NoAttempt EXCEPT !.pc = "agent", !.interactive = i, !.done = d,
                                        !.file = f] :
                        i \in BOOLEAN, d \in BOOLEAN, f \in {None, "f_is_5"}}
    /\ doc = NoDoc

AttemptStep(a) ==
    /\ attempt' = a
    /\ UNCHANGED <<main_vars, resp, race, disk, doc>>

\* line 246: code = agent.generate_code(ctx, verbose=verbose)
AttemptGenerate(src) ==
    /\ attempt.pc = "agent"
    /\ AttemptStep([attempt EXCEPT !.pc = IF attempt.interactive THEN "human" ELSE "check",
                                    !.code = src,
                                    !.calls = @ + 1,
                                    !.events = Append(@, "agent")])

\* lines 253-254, _human_check answered y
AttemptAccept ==
    /\ attempt.pc = "human"
    /\ AttemptStep([attempt EXCEPT !.pc = "check", !.events = Append(@, "accept")])

\* lines 253-254, _human_check answered n
AttemptReject ==
    /\ attempt.pc = "human"
    /\ AttemptStep([attempt EXCEPT !.pc = "retry", !.events = Append(@, "reject")])

\* lines 256-257: _error_check executes the source
AttemptErrorCheck ==
    /\ attempt.pc = "check"
    /\ AttemptStep([attempt EXCEPT
           !.pc = IF ~ExecRaises(attempt.code, attempt.done)
                     /\ ExecValue(attempt.code) = "function"
                  THEN "save" ELSE "retry",
           !.done = @ \/ (attempt.code = OnceSource /\ ~@),
           !.events = Append(@, "exec")])

\* lines 262-265: "Regenerate code?"
AttemptRetry(answer) ==
    /\ attempt.pc = "retry"
    /\ answer => attempt.calls < MaxRuns
    /\ AttemptStep(IF answer THEN [attempt EXCEPT !.pc = "agent"]
                   ELSE [attempt EXCEPT !.pc = "done",
                                        !.result = "GiveUpGenerationError"])

\* variant of line 267 that writes nothing
AttemptSave_skipped ==
    /\ attempt.pc = "save"
    /\ AttemptStep([attempt EXCEPT !.pc = "compile"])

\* line 267: self.__workspace.save_code(code=code, ...)
AttemptSave ==
    /\ attempt.pc = "save"
    /\ AttemptStep([attempt EXCEPT !.pc = "compile", !.file = attempt.code,
                                    !.events = Append(@, "write")])

\* lines 268-269: func = compile_code(code, ctx.name) executes the source
\* again; return CompiledCode(func, code, ctx)
AttemptCompile ==
    /\ attempt.pc = "compile"
    /\ AttemptStep([attempt EXCEPT
           !.pc = "done",
           !.result = IF ExecRaises(attempt.code, attempt.done) THEN "ExecError"
                      ELSE "CompiledCode",
           !.done = @ \/ (attempt.code = OnceSource /\ ~@),
           !.events = Append(@, "exec")])

AttemptNext ==
    \/ \E src \in AttemptSources : AttemptGenerate(src)
    \/ AttemptAccept
    \/ AttemptReject
    \/ AttemptErrorCheck
    \/ \E answer \in BOOLEAN : AttemptRetry(answer)
    \/ AttemptSave
    \/ AttemptCompile

AttemptSpec == AttemptInit /\ [][AttemptNext]_vars

(* ------------------------------ nk_autodoc ---------------------------- *)

\* a Writer over an empty Context; the WorkingState is fresh, or root_scope()
\* has been called
DocInit ==
    /\ Imported
    /\ files = [k \in {} |-> ""]
    /\ resp = NoResponse
    /\ race = NoRace
    /\ disk = NoDisk
    /\ attempt = NoAttempt
    /\ doc \in {NoDoc,
                 [NoDoc EXCEPT !.state = [current_scope_id |-> "s1", scope_ids |-> {"s1"}]]}

DocStep(d) ==
    /\ doc' = d
    /\ UNCHANGED <<main_vars, resp, race, disk, attempt>>

\* the Context in slot x is one the constructor just made from the two lists
Construct(d, x, lists) ==
    [d EXCEPT !.ctx[x] = [entities |-> OwnList(x, "entities"),
                          is_active_entity |-> OwnList(x, "is_active_entity")],
              !.heap[OwnList(x, "entities")] = lists.entities,
              !.heap[OwnList(x, "is_active_entity")] = lists.is_active_entity]

\* Context.add(text) and _add_entity (lines 61-71) on the Context in slot x
add(d, x, text) ==
    [d EXCEPT !.heap[d.ctx[x].entities] = Append(@, from_text(d.next_id, text, d.state)),
              !.heap[d.ctx[x].is_active_entity] = Append(@, TRUE),
              !.next_id = @ + 1]

\* context.add("...")
DocAdd(x, text) ==
    /\ doc.next_id <= MaxEntities
    /\ DocStep([add(doc, x, text) EXCEPT !.last = [NoOp EXCEPT !.op = "add", !.target = x]])

\* variant of Context.copy that hands its own lists to the new Context
DocCopy_shared(x) ==
    /\ x # "k"
    /\ DocStep([doc EXCEPT !.ctx["k"] = doc.ctx[x],
                           !.last = [NoOp EXCEPT !.op = "copy", !.target = "k",
                                                 !.receiver = Entities(doc, x),
                                                 !.out = Entities(doc, x)]])

\* context.copy()
DocCopy(x) ==
    /\ x # "k"
    /\ LET made == Construct(doc, "k", Context_copy(Entities(doc, x), IsActive(doc, x)))
       IN  DocStep([made EXCEPT !.last = [NoOp EXCEPT !.op = "copy", !.target = "k",
                                                     !.receiver = Entities(doc, x),
                                                     !.out = Entities(made, "k")]])

\* context.merge(other)
DocMerge(x, y) ==
    LET made == Construct(doc, "k", Context_merge(Entities(doc, x), IsActive(doc, x),
                                                  Entities(doc, y), IsActive(doc, y)))
    IN  DocStep([made EXCEPT !.last = [NoOp EXCEPT !.op = "merge", !.target = "k",
                                                  !.receiver = Entities(doc, x),
                                                  !.other = Entities(doc, y),
                                                  !.out = Entities(made, "k")]])

\* compressor(context)
DocCompress(x) ==
    /\ doc.next_id <= MaxEntities
    /\ LET made == Construct(doc, "k", Compressor_call(Entities(doc, x), IsActive(doc, x),
                                                       doc.state, doc.next_id))
       IN  DocStep([made EXCEPT !.next_id = @ + 1,
                                !.last = [NoOp EXCEPT !.op = "compress", !.target = "k",
                                                      !.receiver = Entities(doc, x),
                                                      !.out = Entities(made, "k")]])

\* Writer.add_context(context, compressor) (writers.py 16-18): the Context
\* merge returns is dropped
AddContext(x) ==
    /\ x # "w"
    /\ doc.next_id <= MaxEntities
    /\ LET compressed == Compressor_call(Entities(doc, x), IsActive(doc, x), doc.state,
                                         doc.next_id)
           merged == Context_merge(Entities(doc, "w"), IsActive(doc, "w"),
                                   compressed.entities, compressed.is_active_entity)
           IsNew(e) == e.id_ \notin {Entities(doc, "w")[i].id_ :
                                          i \in 1..Len(Entities(doc, "w"))}
       IN  DocStep([doc EXCEPT !.next_id = @ + 1,
                               !.brought = @ \o SelectSeq(compressed.entities, IsNew),
                               !.last = [NoOp EXCEPT !.op = "add_context",
                                                     !.receiver = Entities(doc, "w"),
                                                     !.other = compressed.entities,
                                                     !.out = merged.entities]])

\* Writer.__call__(text) (writers.py 24-27): the model is asked, its answer
\* is added to the context
WriterCall(text, generated_text) ==
    /\ doc.next_id <= MaxEntities
    /\ DocStep([add(doc, "w", generated_text) EXCEPT
                   !.last = [NoOp EXCEPT !.op = "call", !.target = "w",
                                         !.prompt = generation_prompt(Entities(doc, "w"), text)]])

\* Writer.plan(text) (writers.py 57-68)
WriterPlan(text, response) ==
    /\ doc.next_id <= MaxEntities
    /\ DocStep([add(doc, "w", response) EXCEPT
                   !.last = [NoOp EXCEPT !.op = "plan", !.target = "w",
                                         !.prompt = plan_prompt(Entities(doc, "w"), text)]])

DocNext ==
    \/ \E x \in Slots, text \in DocTexts : DocAdd(x, text)
    \/ \E x \in Slots : DocCopy(x)
    \/ \E x, y \in Slots : DocMerge(x, y)
    \/ \E x \in Slots : DocCompress(x)
    \/ \E x \in Slots : AddContext(x)
    \/ \E text \in {<<"t">>}, generated_text \in {<<"g">>} : WriterCall(text, generated_text)
    \/ \E text \in {<<"t">>}, response \in {<<"p">>} : WriterPlan(text, response)

DocSpec == DocInit /\ [][DocNext]_vars


(* ----------------------------- properties ----------------------------- *)

Last(s) == s[Len(s)]

\* an invocation has got as far as the cache check or beyond
InCall == pc \in {"agent", "human", "retry", "done"}

\* exec(code) does not raise and the target (function_name, else the first
\* callable) is callable
Valid(c, function_name) ==
    ~Raises(c) /\ IsCallable(compile_code(c, function_name).value)

\* the Agent has been called, or is the next thing the loop does
AgentCalled == pc = "agent" \/ hist.contexts # << >>

\* C1: once an invocation with identifier i has persisted a validated source, a
\* later invocation with the same identifier and regenerate false (no override,
\* no dry run) returns a CachedCode loaded from the file of i, which holds that
\* persisted source, and the Agent is not called
C1_CachedAfterPersist ==
    \A i \in Ids :
        LET key == CacheKey(i, NoCaller, None)
        IN  (/\ key \in DOMAIN generated
             /\ InCall
             /\ call.id_ = i
             /\ ~call.regenerate
             /\ ~call.dry_run
             /\ call.override = NoOverride)
            => /\ pc = "done"
               /\ result.kind = "CachedCode"
               /\ result.cache_path = IdFile(i)
               /\ hist.files0[IdFile(i)] = generated[key]
               /\ result.func.src = generated[key]
               /\ hist.contexts = << >>
               /\ hist.writes = << >>

\* a second invocation with identifier i2, which only this run can have
\* persisted, is served from the cache
C1_Witness ==
    /\ pc = "done"
    /\ call.id_ = "i2"
    /\ ~call.regenerate
    /\ CacheKey("i2", NoCaller, None) \in DOMAIN generated
    /\ result.kind = "CachedCode"
    /\ result.func.src = generated[CacheKey("i2", NoCaller, None)]

\* C2: within an invocation the cache is written at most once, and only with a
\* source that passed the reviewer (when interactive) and the error check: the
\* source of the last attempt, every earlier attempt having failed; no other
\* file of the cache changes
C2_WriteAfterValidation ==
    pc # "idle" =>
        /\ Len(hist.writes) <= 1
        /\ hist.writes = << >> => files = hist.files0
        /\ hist.writes # << >> =>
              LET w == hist.writes[1]
              IN  /\ pc = "done"
                  /\ result.kind = "CompiledCode"
                  /\ result.source_code = w.code
                  /\ files = WriteText(hist.files0, w.file, w.code)
                  /\ Valid(w.code, ctx.name)
                  /\ w.code = code
                  /\ hist.checked # << >>
                  /\ Last(hist.checked) = [code |-> w.code, success |-> TRUE]
                  /\ \A m \in 1..Len(hist.checked) :
                        m < Len(hist.checked) =>
                            /\ ~hist.checked[m].success
                            /\ hist.checked[m].code # w.code
                  /\ call.interactive =>
                        /\ hist.reviews # << >>
                        /\ Last(hist.reviews) = [code |-> w.code, verdict |-> "y"]

\* a reviewed invocation writes its second attempt after the first one failed
C2_Witness ==
    /\ pc = "done"
    /\ call.interactive
    /\ Len(hist.writes) = 1
    /\ Len(hist.checked) = 2
    /\ ~hist.checked[1].success

\* C3: when the attempts 1..k fail the error check, attempt k+1 passes it and
\* every retry is granted, the Agent is called exactly k+1 times, its j-th call
\* sees exactly the ErrorFeedback of the attempts 1..j-1, in order, and no
\* source but that of attempt k+1 is persisted (it is persisted whenever the
\* request has an identifier or a name to save it under)
C3_RetryFeedback ==
    (/\ pc = "done"
     /\ hist.checked # << >>
     /\ Last(hist.checked).success
     /\ \A m \in 1..Len(hist.reviews) : hist.reviews[m].verdict = "y")
    => /\ Len(hist.contexts) = Len(hist.checked)
       /\ \A m \in 1..Len(hist.checked) :
             m < Len(hist.checked) => ~hist.checked[m].success
       /\ \A j \in 1..Len(hist.contexts) :
             /\ Len(hist.contexts[j]) + 1 = j
             /\ \A m \in 1..Len(hist.contexts[j]) :
                   /\ hist.contexts[j][m].kind = "error"
                   /\ hist.contexts[j][m].previous_code = hist.checked[m].code
       /\ \A m \in 1..Len(hist.answers) : hist.answers[m] = "y"
       /\ Len(hist.answers) + 1 = Len(hist.checked)
       /\ Len(hist.writes) <= 1
       /\ \A m \in 1..Len(hist.writes) : hist.writes[m].code = Last(hist.checked).code
       /\ (Truthy(ctx.id) \/ Truthy(ctx.name)) => Len(hist.writes) = 1

\* without a reviewer: the first attempt failed, the retry was granted and the
\* second attempt was persisted
C3_Witness ==
    /\ pc = "done"
    /\ ~call.interactive
    /\ Len(hist.contexts) = 2
    /\ Len(hist.contexts[2]) = 1
    /\ result.kind = "CompiledCode"
    /\ hist.writes # << >>

\* C4: with interactive false, a source whose execution raises makes the loop
\* propagate the execution error on the first attempt: one Agent call, no
\* prompt, nothing written
C4_PropagatesExecError ==
    (/\ pc # "idle"
     /\ ~call.interactive
     /\ hist.checked # << >>
     /\ Raises(hist.checked[1].code))
    => /\ pc = "done"
       /\ result = Raised("ExecError")
       /\ Len(hist.contexts) = 1
       /\ ~hist.asked
       /\ hist.writes = << >>

\* C5: when an attempt fails and the operator answers no to the retry prompt,
\* the loop raises GiveUpGenerationError: the Agent is not called again, the
\* feedback of the refused attempt is not appended to the Context, nothing is
\* written and the cache is as it was before the invocation, regenerate or not
C5_GiveUp ==
    /\ (pc = "done" /\ hist.answers # << >> /\ Last(hist.answers) = "n")
           => result = Raised("GiveUpGenerationError")
    /\ result = Raised("GiveUpGenerationError") =>
           /\ pc = "done"
           /\ Last(hist.answers) = "n"
           /\ Len(hist.contexts) = Len(hist.answers)
           /\ ctx.feedbacks = Last(hist.contexts)
           /\ \A m \in 1..Len(hist.answers) :
                 m < Len(hist.answers) => hist.answers[m] = "y"
           /\ hist.writes = << >>
           /\ files = hist.files0

\* the operator gives up a regenerate=true invocation whose cache file exists
C5_Witness ==
    /\ result = Raised("GiveUpGenerationError")
    /\ call.regenerate
    /\ SaveTarget(call.id_, ctx.name, call.caller_path) \in DOMAIN hist.files0
    /\ files = hist.files0

\* C6: when dry run is in effect (dry_run=True, or the setup default when the
\* call passes none) and a stub is supplied, the Agent is not called, the cache
\* is neither read nor written and no override is resolved; a call of the
\* returned artifact runs the stub with the arguments passed; the decorator
\* form reports the decorated function's name as function_name
C6_DryRun ==
    (/\ pc # "idle"
     /\ \/ hist.dry_run_arg = "True"
        \/ hist.dry_run_arg = None /\ assistant.dry_run
     /\ call.dry_run_fn # NoneValue)
    => /\ hist.contexts = << >>
       /\ ~hist.lookup
       /\ hist.cache_read = NoPath
       /\ hist.writes = << >>
       /\ files = hist.files0
       /\ ~hist.imported
       /\ pc \in {"decorator", "done"}
       /\ pc = "done" =>
             /\ result.kind \in {"DryRunCode", "DecoratorCode"}
             /\ Callee(result.func) = call.dry_run_fn
             /\ result.kind = "DecoratorCode" =>
                   /\ hist.decorated # None
                   /\ result.function_name = hist.decorated
             /\ invoked # NoInvocation =>
                   /\ invoked.exc = None
                   /\ invoked.callee = call.dry_run_fn
                   /\ invoked.args = invoked.passed

\* dry run by the setup default, decorator form: the wrapper was called
C6_Witness ==
    /\ pc = "done"
    /\ hist.dry_run_arg = None
    /\ assistant.dry_run
    /\ result.kind = "DecoratorCode"
    /\ result.function_name = "g"
    /\ invoked # NoInvocation
    /\ invoked.callee = Stub

C8_WriteWhereLookupReads ==
    /\ \A m \in 1..Len(hist.writes) :
          hist.writes[m].file =
              IF Truthy(ctx.id) THEN IdFile(ctx.id)
              ELSE get_code_path_by_path(call.caller_path, ctx.name)
    /\ (/\ InCall
        /\ ~Truthy(ctx.id)
        /\ Truthy(ctx.name)
        /\ CacheKey(None, call.caller_path, ctx.name) \in DOMAIN generated
        /\ ~call.regenerate
        /\ ~call.dry_run
        /\ call.override = NoOverride)
       => /\ pc = "done"
          /\ result.kind = "CachedCode"
          /\ hist.contexts = << >>

\* C9: when the identifier's file and the call-site file both exist, the
\* lookup loads the identifier's file; the call-site file is loaded only when
\* the request has no identifier or its identifier has no file
C9_IdFilePreferred ==
    (pc # "idle" /\ hist.lookup) =>
        /\ (Truthy(ctx.id) /\ IdFile(ctx.id) \in DOMAIN hist.files0)
               => hist.cache_read = IdFile(ctx.id)
        /\ (/\ Truthy(ctx.name)
            /\ call.caller_path # NoCaller
            /\ hist.cache_read = get_code_path_by_path(call.caller_path, ctx.name))
               => \/ ~Truthy(ctx.id)
                  \/ IdFile(ctx.id) \notin DOMAIN hist.files0
        /\ result.kind = "CachedCode" =>
               /\ result.cache_path = hist.cache_read
               /\ result.func.src = hist.files0[hist.cache_read]

\* both files exist, with different texts, and the identifier's is loaded
C9_Witness ==
    /\ pc = "done"
    /\ hist.lookup
    /\ Truthy(ctx.id)
    /\ Truthy(ctx.name)
    /\ IdFile(ctx.id) \in DOMAIN hist.files0
    /\ get_code_path_by_path(call.caller_path, ctx.name) \in DOMAIN hist.files0
    /\ hist.files0[IdFile(ctx.id)]
           # hist.files0[get_code_path_by_path(call.caller_path, ctx.name)]
    /\ result.kind = "CachedCode"
    /\ result.cache_path = IdFile(ctx.id)

\* structure/<call site>/<name>.py, the call-site cache file of section 6
StructureFile(caller_path, name) == <<"structure">> \o caller_path \o <<name \o ".py">>

\* C10: for a request without identifier, after a generation from call site p1
\* succeeded, the same request (same name, regenerate false) from a call site
\* p2 # p1 that has no cache file of its own misses the cache and calls the
\* Agent again
C10_OtherSiteMisses ==
    (/\ InCall
     /\ ~Truthy(ctx.id)
     /\ Truthy(ctx.name)
     /\ ~call.regenerate
     /\ ~call.dry_run
     /\ call.override = NoOverride
     /\ \E k \in DOMAIN generated :
           /\ k.id = None
           /\ k.name = ctx.name
           /\ k.caller_path # call.caller_path
     /\ StructureFile(call.caller_path, ctx.name) \notin DOMAIN hist.files0)
    => /\ hist.lookup
       /\ result.kind # "CachedCode"
       /\ AgentCalled

\* the request generated at a.py is generated again at pkg/b.py
C10_Witness ==
    /\ pc = "done"
    /\ ~Truthy(ctx.id)
    /\ call.caller_path = <<"pkg", "b.py">>
    /\ CacheKey(None, <<"a.py">>, ctx.name) \in DOMAIN generated
    /\ ~call.regenerate
    /\ hist.lookup
    /\ result.kind = "CompiledCode"


\* the invocation reached the cache check and the generation loop: no dry run,
\* no override that resolved or failed to split
InLoop ==
    /\ InCall
    /\ ~call.dry_run
    /\ \/ call.override = NoOverride
       \/ ResolveOverride(call.override).outcome \in {"ImportError", "AttributeError"}

\* the cache file of the request's key: the identifier's, else that of the call
\* site and name
KeyFile == IF Truthy(ctx.id) THEN IdFile(ctx.id) ELSE StructureFile(call.caller_path, ctx.name)

\* C11: with regenerate true the cache check is skipped and the Agent is called
\* even when an entry for the key exists, and a success overwrites that entry
\* with the validated source; with regenerate false and a loadable entry the
\* Agent is not called
C11_RegenerateOverwrites ==
    /\ (InLoop /\ call.regenerate) => (~hist.lookup /\ AgentCalled)
    /\ (/\ InLoop
        /\ call.regenerate
        /\ result.kind = "CompiledCode"
        /\ KeyFile \in DOMAIN hist.files0)
       => /\ Len(hist.writes) = 1
          /\ hist.writes[1].file = KeyFile
          /\ files[KeyFile] = result.source_code
    /\ (/\ InLoop
        /\ ~call.regenerate
        /\ load_cached_code(hist.files0, call.caller_path, ctx.name, ctx.id).outcome = "hit")
       => /\ pc = "done"
          /\ result.kind = "CachedCode"
          /\ hist.contexts = << >>

\* C12: the verbose, interactive, regenerate, dry_run and agent of an invocation
\* are the values passed to it (an explicit False included), and for each one
\* left out the value given to the last setup_autocode, whatever the calls in
\* between passed; the loop acts on them: its Agent calls go to that agent, the
\* cache check runs exactly when regenerate is false, the reviewer is asked
\* exactly when interactive is true
C12_PerCallDefaults ==
    LET a == hist.args
        want(v, d) == IF v = None THEN d ELSE v = "True"
    IN  /\ pc # "idle" => call.dry_run = want(hist.dry_run_arg, setup_args.dry_run = "True")
        /\ InLoop =>
              /\ call.interactive = want(a.interactive, setup_args.interactive)
              /\ call.regenerate = want(a.regenerate, setup_args.regenerate)
              /\ call.verbose = want(a.verbose, setup_args.verbose)
              /\ call.agent = IF a.agent # None THEN a.agent
                              ELSE IF setup_args.agent # None THEN setup_args.agent
                              ELSE "OpenAIAgent"
              /\ \A m \in 1..Len(hist.agents) : hist.agents[m] = call.agent
              /\ Len(hist.agents) = Len(hist.contexts)
              /\ call.regenerate <=> ~hist.lookup
              /\ pc = "human" => call.interactive
              /\ hist.checked # << >> => (call.interactive <=> hist.reviews # << >>)

\* after a setup with a reviewer and an agent, a call that passes
\* interactive=False and an agent of its own runs unreviewed with its agent
C12_Witness ==
    /\ pc = "done"
    /\ setup_args.interactive
    /\ setup_args.agent = "agent_s"
    /\ hist.args.interactive = "False"
    /\ hist.args.agent = "agent_c"
    /\ hist.args.verbose = None
    /\ call.verbose
    /\ hist.agents = <<"agent_c">>
    /\ hist.reviews = << >>
    /\ result.kind = "CompiledCode"

\* C13: after setup_autocode(dry_run=True, dry_run_fn=f), an invocation that
\* passes neither dry_run nor dry_run_fn is a dry run whose artifact calls f,
\* and the Agent is not called
C13_SetupDryRunFn ==
    (/\ pc # "idle"
     /\ setup_args.dry_run = "True"
     /\ setup_args.dry_run_fn # NoneValue
     /\ hist.dry_run_arg = None
     /\ call.dry_run_fn = NoneValue)
    => /\ hist.contexts = << >>
       /\ pc \in {"decorator", "done"}
       /\ pc = "done" =>
             /\ result.kind \in {"DryRunCode", "DecoratorCode"}
             /\ Callee(result.func) = setup_args.dry_run_fn

\* C14: the CompiledCode the loop returns carries the source that invocation
\* wrote to the cache and the final Context, whose feedback list has exactly one
\* entry per failed attempt that was retried, in attempt order
C14_CompiledArtifact ==
    result.kind = "CompiledCode" =>
        /\ Len(hist.writes) = 1
        /\ result.source_code = hist.writes[1].code
        /\ files[hist.writes[1].file] = result.source_code
        /\ result.func = compile_code(result.source_code, ctx.name).value
        /\ result.context = ctx
        /\ Len(result.context.feedbacks) + 1 = Len(hist.contexts)
        /\ \A m \in 1..Len(result.context.feedbacks) :
              LET fb == result.context.feedbacks[m]
              IN  IF call.interactive
                  THEN /\ fb.previous_code = hist.reviews[m].code
                       /\ fb.kind = IF hist.reviews[m].verdict = "n" THEN "human" ELSE "error"
                  ELSE /\ fb.previous_code = hist.checked[m].code
                       /\ fb.kind = "error"

\* C15: applying the decorator to a function runs the loop with the function's
\* name and docstring in the Context: the cache lookup is the one of that name,
\* what comes back is the loop's artifact or exception, and a call of the
\* artifact runs the loaded or generated callable, never the decorated function
C15_DecoratorRunsLoop ==
    (InCall /\ hist.decorated # None /\ ~call.dry_run) =>
        /\ ctx.name = hist.decorated
        /\ ctx.docstring = Docstring(hist.decorated)
        /\ ctx.id = call.id_
        /\ call.regenerate <=> ~hist.lookup
        /\ hist.lookup =>
              hist.cache_read =
                  load_cached_code(hist.files0, call.caller_path, hist.decorated,
                                   call.id_).cache_path
        /\ pc = "done" => result.kind \in {"CachedCode", "CompiledCode", "raised"}
        /\ result.kind = "CompiledCode" =>
              /\ result.context.name = hist.decorated
              /\ result.func = compile_code(result.source_code, hist.decorated).value
              /\ hist.writes = <<[file |-> SaveTarget(call.id_, hist.decorated,
                                                     call.caller_path),
                                  code |-> result.source_code]>>
        /\ invoked # NoInvocation =>
              /\ invoked.exc # None => invoked.callee = NoneValue
              /\ invoked.exc = None =>
                    /\ invoked.callee = result.func
                    /\ invoked.callee.src \in Sources
                    /\ invoked.args = invoked.passed

\* the decorator of autocode(name="f", decorator=True) was applied to g: the
\* loop generated g and the caller called the artifact
C15_Witness ==
    /\ pc = "done"
    /\ call.name = "f"
    /\ hist.decorated = "g"
    /\ result.kind = "CompiledCode"
    /\ result.func.var = "g"
    /\ invoked # NoInvocation

\* C16: Editor.edit returns (False, code) when the editor exits non-zero; in the
\* review, after an edit that failed or with no editor configured, the code
\* under review is the one it was and the reviewer is at the prompt again
C16_FailedEdit ==
    /\ \A c \in Sources, t \in EditorTexts, e \in ExitCodes :
          e # 0 => Editor_edit(c, e, t) = <<FALSE, c>>
    /\ hist.edit.status \in {"failed", "no_editor"} =>
          /\ pc = "human"
          /\ code = hist.edit.before
          /\ hist.edit.status = "no_editor" <=> ~assistant.editor

\* the editor fails on a code that an earlier edit produced
C16_Witness ==
    /\ pc = "human"
    /\ hist.edit.status = "failed"
    /\ ~is_generated
    /\ code \in EditorTexts


\* no agent was given to the last setup_autocode nor to the call
NoAgentConfigured == setup_args.agent = None /\ hist.args.agent = None

RaceDone == \A p \in Procs : race.proc[p].pc = "done"

\* C18: two concurrent invocations of one key on an empty cache can both call
\* the Agent and both write, and once both have finished the cache file holds
\* exactly the validated source of the invocation that wrote last: no mixture
\* of the two sources and no source that failed validation
C18_LastWriterWins ==
    (RaceDone /\ race.writers # << >>) =>
        /\ race.file = race.proc[Last(race.writers)].code
        /\ RaceValid(race.file)
        /\ \A p \in Procs : race.file \notin race.proc[p].failed

IsFeedbackLine(line) == line[1] \in {"- Human: ", "- Error: "}

IsPreviousCode(line) == line[1] = "- Previous Code:"

IsHuman(fb) == fb.kind = "human"

\* C19: the request OpenAIAgent builds holds the whole feedback list of the
\* Context: one entry per feedback, in list order, a HumanFeedback giving its
\* previous code and its text and an ErrorFeedback its error message; the
\* request of attempt j so holds the failures of the j-1 attempts before it
C19_RequestHasHistory ==
    \A m \in 1..Len(hist.requests) :
        hist.agents[m] = "OpenAIAgent" =>
            LET req == hist.requests[m]
                fbs == hist.contexts[m]
                entries == SelectSeq(req, IsFeedbackLine)
                prevs == SelectSeq(req, IsPreviousCode)
                humans == SelectSeq(fbs, IsHuman)
                older == Len(fbs) - (m - 1)
            IN  /\ Len(entries) = Len(fbs)
                /\ \A k \in 1..Len(fbs) :
                      entries[k] = <<IF fbs[k].kind = "human" THEN "- Human: "
                                     ELSE "- Error: ", fbs[k].message>>
                /\ Len(prevs) = Len(humans)
                /\ \A k \in 1..Len(humans) : prevs[k][2] = humans[k].previous_code
                /\ \A i \in 1..Len(req) :
                      (IsPreviousCode(req[i]) /\ i < Len(req)) => req[i + 1][1] = "- Human: "
                /\ older >= 0
                /\ \A k \in 1..(m - 1) :
                      fbs[older + k].previous_code =
                          IF call.interactive THEN hist.reviews[k].code
                          ELSE hist.checked[k].code

\* the second request of a reviewed generation carries the reviewer's feedback
\* and the code it was about
C19_Witness ==
    /\ Len(hist.requests) = 2
    /\ hist.agents[2] = "OpenAIAgent"
    /\ hist.contexts[2] # << >>
    /\ hist.contexts[2][1].kind = "human"
    /\ \E i \in 1..Len(hist.requests[2]) :
          hist.requests[2][i] = <<"- Human: ", "wrong result">>

\* what may stand between the backticks of an opening fence and its line end
Languages == {"python", "py"}

HasFence(content) == \E i \in 1..Len(content) : content[i] = Fence

FirstFence(content) ==
    CHOOSE i \in 1..Len(content) :
        content[i] = Fence /\ \A o \in 1..(i - 1) : content[o] # Fence

\* the first line after the fence at i, 0 when the fence's line is not one of
\* an opening fence
BlockStart(content, i) ==
    IF i + 1 <= Len(content) /\ content[i + 1] = Newline THEN i + 2
    ELSE IF /\ i + 2 <= Len(content)
            /\ content[i + 1] \in Languages
            /\ content[i + 2] = Newline THEN i + 3
    ELSE 0

\* the text from s to the next fence, or to the end
BlockFrom(content, s) ==
    LET closing == {e \in s..Len(content) : content[e] = Fence}
        e == IF closing = {} THEN Len(content) + 1
             ELSE CHOOSE c \in closing : \A o \in closing : c <= o
    IN  SubSeq(content, s, e - 1)

\* C20: from a response that contains a fence the Agent returns the trimmed
\* content of the first fenced block, up to the closing fence or to the end of
\* the response, and from a response without a fence the trimmed response
C20_FirstFencedBlock ==
    resp.state = "returned" =>
        LET content == resp.content
        IN  IF ~HasFence(content) THEN resp.code = strip(content)
            ELSE LET s == BlockStart(content, FirstFence(content))
                 IN  s # 0 => resp.code = strip(BlockFrom(content, s))


\* the control loop is running: the Agent, the reviewer or the operator is next
Looping == pc \in {"agent", "human", "retry"}

\* C21: while the control loop runs, the feedback list of its Context only
\* grows at its end: a step of the loop leaves the list as it is, except the
\* retry of a failed attempt, which appends that attempt's one feedback; the
\* list never shrinks and no entry is changed or moved
C21_AppendOnly ==
    [][Looping =>
          IF pc = "retry" /\ pc' = "agent"
          THEN /\ feedback # NoFeedback
               /\ ctx'.feedbacks = Append(ctx.feedbacks, feedback)
          ELSE ctx'.feedbacks = ctx.feedbacks]_vars

\* a second attempt is under way and the first one's feedback is in the list
C21_Witness ==
    /\ pc = "agent"
    /\ hist.applied = 0
    /\ hist.answers = <<"y">>
    /\ Len(hist.contexts) = 1
    /\ ctx.feedbacks = <<feedback>>

IsAccepted(review) == review.verdict = "y"

IsYes(answer) == answer = "y"

\* C23: with a reviewer the error check runs on the accepted codes only: a
\* rejection leaves the error check out, makes a HumanFeedback of the rejected
\* code and the reviewer's text and leads to the retry prompt; an accepted code
\* that fails the error check makes an ErrorFeedback and leads to the same
\* prompt; an attempt adds one feedback at most
C23_CheckAfterAcceptance ==
    /\ [](InLoop /\ call.interactive =>
            LET accepted == SelectSeq(hist.reviews, IsAccepted)
            IN  /\ Len(hist.checked) = Len(accepted)
                /\ \A k \in 1..Len(accepted) : hist.checked[k].code = accepted[k].code
                /\ pc = "retry" =>
                      LET r == Last(hist.reviews)
                      IN  /\ feedback.previous_code = r.code
                          /\ IF r.verdict = "n"
                             THEN /\ feedback.kind = "human"
                                  /\ feedback.message \in FeedbackTexts
                             ELSE /\ feedback.kind = "error"
                                  /\ ~Last(hist.checked).success
                                  /\ feedback = error_check(r.code, ctx.name).feedback
                /\ Len(hist.answers) <= Len(hist.reviews)
                /\ Len(hist.reviews) <= Len(hist.contexts)
                /\ hist.contexts # << >> =>
                      Len(ctx.feedbacks) =
                          Len(hist.contexts[1]) + Len(SelectSeq(hist.answers, IsYes)))
    /\ [][(pc = "human" /\ pc' # "human" /\ Last(hist'.reviews).verdict = "n") =>
              /\ pc' = "retry"
              /\ hist'.checked = hist.checked
              /\ hist'.retry_prompts = hist.retry_prompts + 1]_vars

\* the reviewer rejected the first code and accepted the second, which then
\* failed the error check
C23_Witness ==
    /\ pc = "retry"
    /\ call.interactive
    /\ Len(hist.reviews) = 2
    /\ hist.reviews[1].verdict = "n"
    /\ hist.reviews[2].verdict = "y"
    /\ Len(hist.checked) = 1
    /\ feedback.kind = "error"

\* C24: after an edit the review goes on with the edited text, and the text
\* the reviewer accepts or rejects in the end is the one used from there: the
\* error check, the cache write and the artifact on acceptance, the
\* HumanFeedback's previous_code on rejection
C24_EditedCodeUsed ==
    /\ [](pc = "human" /\ hist.edit.status = "edited" =>
              /\ code = hist.edit.after
              /\ ~is_generated)
    /\ [][(pc = "human" /\ pc' # "human") =>
              /\ Last(hist'.reviews).code = code
              /\ IF Last(hist'.reviews).verdict = "n"
                 THEN feedback'.previous_code = code
                 ELSE /\ Last(hist'.checked).code = code
                      /\ result'.kind = "CompiledCode" =>
                            /\ result'.source_code = code
                            /\ Last(hist'.writes).code = code
                            /\ files'[Last(hist'.writes).file] = code
                            /\ result'.func.src = code]_vars

\* the reviewer changed the Agent's broken code into a definition of f and
\* accepted it: the edited text is in the cache and in the artifact
C24_Witness ==
    /\ pc = "done"
    /\ call.interactive
    /\ result.kind = "CompiledCode"
    /\ hist.contexts = << << >> >>
    /\ result.source_code = "def_f"
    /\ result.source_code \in EditorTexts
    /\ hist.reviews = <<[code |-> "def_f", verdict |-> "y"]>>
    /\ files[IdFile("i1")] = "def_f"

\* C27: a cache hit returns the cached artifact and does nothing else: no
\* Agent call, no prompt of the reviewer or of the retry, no error check, no
\* file written, and the feedback list of the Context is empty
C27_CacheHitNoEffect ==
    result.kind = "CachedCode" =>
        /\ hist.lookup
        /\ hist.contexts = << >>
        /\ hist.agents = << >>
        /\ ~hist.asked
        /\ hist.retry_prompts = 0
        /\ hist.reviews = << >>
        /\ hist.checked = << >>
        /\ hist.writes = << >>
        /\ files = hist.files0
        /\ ctx.feedbacks = << >>

\* C28: an exception of the Agent's generate_code comes out of the invocation as
\* it is: it makes no feedback, no retry prompt follows, the Agent is not called
\* again and the cache is as it was
C28_AgentErrorPropagates ==
    /\ [](hist.agent_errors > 0 =>
              /\ pc = "done"
              /\ result = Raised("AgentError")
              /\ hist.agent_errors = 1
              /\ ctx.feedbacks = Last(hist.contexts)
              /\ Len(hist.answers) = Len(hist.contexts) - 1
              /\ hist.retry_prompts = Len(hist.contexts) - 1
              /\ hist.writes = << >>
              /\ files = hist.files0)
    /\ [][(pc = "agent" /\ hist'.agent_errors > hist.agent_errors) =>
              /\ pc' = "done"
              /\ Len(hist'.agents) = Len(hist.agents) + 1
              /\ UNCHANGED <<ctx, feedback, files>>
              /\ hist'.retry_prompts = hist.retry_prompts
              /\ hist'.answers = hist.answers]_vars

\* the Agent raises at the second attempt
C28_Witness ==
    /\ result = Raised("AgentError")
    /\ Len(hist.agents) = 2
    /\ hist.answers = <<"y">>
    /\ hist.applied = 0

\* C30: a request with neither name nor identifier whose source passes
\* validation on its first callable ends like any other, with the
\* CompiledCode of that callable, and raises nothing after the validation
C30_KeylessCompletes ==
    (/\ InLoop
     /\ ~Truthy(ctx.name)
     /\ ~Truthy(ctx.id)
     /\ hist.checked # << >>
     /\ Last(hist.checked).success)
    => /\ pc = "done"
       /\ result.kind = "CompiledCode"
       /\ result.func = FirstCallable(result.source_code)

\* C25: with a reviewer, whenever "Regenerate code?" is asked, the code of the
\* failed attempt and the reason of its failure (the reviewer's text, or the
\* error message of the error check) were shown to the operator in the same
\* iteration, whatever verbose is
C25_FailureShown ==
    (pc = "retry" /\ call.interactive) =>
        /\ hist.shown.code = feedback.previous_code
        /\ hist.shown.reason = feedback.message

\* C22: every failure of the error check comes back as an ErrorFeedback and
\* none leaves it as an exception: whatever the source raises when executed,
\* a missing target and a target that is not callable each give
\* (False, ErrorFeedback) holding the checked source and the exception's
\* message, the not-found text or the not-callable text
C22_ErrorsBecomeFeedback ==
    \A k \in 1..Len(hist.checked) :
        LET c == hist.checked[k].code
            r == error_check(c, ctx.name)
        IN  (~Valid(c, ctx.name)) =>
                /\ r.raised = None
                /\ ~r.success
                /\ r.feedback.kind = "error"
                /\ r.feedback.previous_code = c
                /\ r.feedback.message =
                       IF Raises(c) THEN ExcMessage(c)
                       ELSE IF compile_code(c, ctx.name).value = NoneValue
                       THEN IF ctx.name = None THEN "No function found in the code."
                            ELSE "Function '" \o ctx.name \o "' not found in the code."
                       ELSE "'" \o ctx.name \o "' is not callable."
                /\ (k = Len(hist.checked) /\ pc = "retry" /\ feedback.kind = "error") =>
                       feedback = r.feedback
                /\ (k = Len(hist.checked) /\ pc = "done") =>
                       result \in {Raised("GiveUpGenerationError"), Raised("AgentError")}

LastTarget ==
    IF disk.last.id_ # NoKey THEN JoinFile(<<"ids">>, disk.last.id_)
    ELSE JoinFile(<<"structure">>, disk.last.name)

\* C29: a save creates every missing directory between the cache root and
\* its file, so whatever directories exist, none included, the write succeeds
\* for every key, an id or a name with a path separator included: nothing is
\* raised, the file holds the code and all its directories exist
C29_SaveCreatesDirectories ==
    (disk.saves > 0 /\ (disk.last.id_ # NoKey \/ disk.last.name # NoKey)) =>
        /\ disk.last.raised = None
        /\ LastTarget \in DOMAIN disk.files
        /\ disk.files[LastTarget] = disk.last.code
        /\ \A k \in 0..(Len(LastTarget) - 1) : SubSeq(LastTarget, 1, k) \in disk.dirs

\* C31: every application of the decorator of one autocode(decorator=True)
\* call starts its generation with an empty feedback list: the Context of its
\* first Agent call holds no feedback, and so none of an earlier application
C31_FreshFeedbacks ==
    /\ (pc = "decorator" /\ ~call.dry_run) => ctx.feedbacks = << >>
    /\ (hist.decorated # None /\ hist.contexts # << >>) => hist.contexts[1] = << >>

\* C32: autocode(decorator=True, ...) returns a decorator whatever the other
\* arguments are, a resolvable override included: what the call hands back is
\* the decorator, an artifact comes only from applying it, and the decorated
\* function is never an argument of the generated, cached or imported callable
C32_DecoratorReturned ==
    (InCall /\ hist.args.decorator) =>
        /\ (pc = "done" /\ hist.decorated = None) => result.kind = "raised"
        /\ hist.func_passed = None

\* C33: an override without a ":" cannot be resolved and is handled like every
\* other override that cannot be resolved: autocode goes on to the cache check
\* and to generation, and raises nothing because of the override
C33_UnresolvedFallsThrough ==
    (/\ InCall
     /\ ~call.dry_run
     /\ call.override # NoOverride
     /\ ResolveOverride(call.override).outcome # "ok") =>
        /\ call.regenerate \/ hist.lookup
        /\ ~(result.kind = "raised" /\ result.exc = ResolveOverride(call.override).outcome)

\* executing the text binds no callable
NoCallable(text) == ~Raises(text) /\ FirstCallable(text) = NoneValue

\* C34: when the cache file of the key exists but executing it defines no
\* callable, the lookup is a miss: no CachedCode is returned, the loop calls
\* the Agent, and a successful generation overwrites that file with the
\* validated source
C34_NoCallableIsMiss ==
    (/\ InLoop
     /\ hist.lookup
     /\ hist.cache_read # NoPath
     /\ NoCallable(hist.files0[hist.cache_read])) =>
        /\ result.kind # "CachedCode"
        /\ pc = "done" => hist.agents # << >>
        /\ result.kind = "CompiledCode" =>
              /\ files[hist.cache_read] = result.source_code
              /\ Valid(result.source_code, ctx.name)

\* the lookup executed a cache file and the execution raised
CacheFileRaised ==
    /\ InLoop
    /\ hist.lookup
    /\ hist.cache_read # NoPath
    /\ Raises(hist.files0[hist.cache_read])

\* C35: when executing the cache file of the key raises, the exception reaches
\* the caller of autocode: the Agent is not called, no prompt is shown, nothing
\* is written and the cache file is left as it was
C35_CacheExecPropagates ==
    CacheFileRaised =>
        /\ pc = "done"
        /\ result = Raised("ExecError")
        /\ hist.agents = << >>
        /\ hist.retry_prompts = 0
        /\ ~hist.asked
        /\ hist.writes = << >>
        /\ files = hist.files0

\* the lookup of an identifier whose cache file does not parse
C35_Witness ==
    /\ CacheFileRaised
    /\ hist.cache_read = IdFile("i1")
    /\ files[IdFile("i1")] = "syntax_error"
    /\ result = Raised("ExecError")

\* the events of the invocation from its last Agent call on
FinalAttempt(events) ==
    LET calls == {i \in 1..Len(events) : events[i] = "agent"}
    IN  IF calls = {} THEN << >>
        ELSE SubSeq(events, CHOOSE i \in calls : \A j \in calls : j <= i, Len(events))

IsWrite(event) == event = "write"

\* C36: on the success path the final attempt is, in this order, the Agent
\* call, the reviewer's acceptance (with a reviewer only), the validating
\* execution, the cache write and the second execution that gives the
\* callable: the source is executed twice and written once, and when the
\* second execution raises, the caller gets the exception with the cache
\* already written
C36_SuccessPathOrder ==
    (attempt.pc = "done" /\ attempt.result \in {"CompiledCode", "ExecError"}) =>
        /\ FinalAttempt(attempt.events) =
               IF attempt.interactive THEN <<"agent", "accept", "exec", "write", "exec">>
               ELSE <<"agent", "exec", "write", "exec">>
        /\ Len(SelectSeq(attempt.events, IsWrite)) = 1
        /\ attempt.file = attempt.code
        /\ attempt.result = "ExecError" <=> attempt.code = OnceSource

\* the second execution of an accepted source raised: the caller has the
\* exception and the cache has the source
C36_Witness ==
    /\ attempt.pc = "done"
    /\ attempt.interactive
    /\ attempt.result = "ExecError"
    /\ attempt.code = OnceSource
    /\ attempt.file = OnceSource
    /\ attempt.calls = 2

\* the ids of a list of entities
IdsOf(entities) == {entities[i].id_ : i \in 1..Len(entities)}

\* C37: in every reachable state the entities and the is_active_entity of each
\* Context have the same length, whatever add, copy, merge and Compressor did;
\* what merge returns is the receiver's entities followed by those of the
\* other Context whose id the receiver does not hold, so that no id of the
\* receiver is duplicated; and an operation changes the lists of no Context
\* but its own, so that an addition to a copy leaves the original as it was
C37_ListsAligned ==
    /\ [](\A x \in Slots : Len(Entities(doc, x)) = Len(IsActive(doc, x)))
    /\ [](doc.last.op = "merge" =>
            LET recv == doc.last.receiver
                out == doc.last.out
            IN  /\ Len(out) >= Len(recv)
                /\ SubSeq(out, 1, Len(recv)) = recv
                /\ \A i \in (Len(recv) + 1)..Len(out) : out[i].id_ \notin IdsOf(recv)
                /\ \A j \in 1..Len(doc.last.other) :
                      doc.last.other[j].id_ \notin IdsOf(recv) =>
                          \E i \in (Len(recv) + 1)..Len(out) : out[i] = doc.last.other[j])
    /\ [](doc.last.op = "copy" => doc.last.out = doc.last.receiver)
    /\ [][\A x \in Slots :
              x # doc'.last.target =>
                  /\ Entities(doc', x) = Entities(doc, x)
                  /\ IsActive(doc', x) = IsActive(doc, x)]_vars

\* a merge that skipped an entity the receiver held and took one it did not
C37_Witness ==
    /\ doc.last.op = "merge"
    /\ Len(doc.last.out) > Len(doc.last.receiver)
    /\ Len(doc.last.out) < Len(doc.last.receiver) + Len(doc.last.other)
    /\ \E x \in Slots : Entities(doc, x) # << >> /\ Entities(doc, x) # Entities(doc, "k")

\* C38: after Writer.add_context(context, compressor) the writer's context
\* holds the entities of the compressed context it did not hold before, and
\* the prompt of a later generation or plan call shows their texts
C38_AddContextMerges ==
    /\ doc.last.op = "add_context" =>
           /\ Entities(doc, "w") = doc.last.out
           /\ \A j \in 1..Len(doc.last.other) :
                 doc.last.other[j].id_ \notin IdsOf(doc.last.receiver) =>
                     \E i \in 1..Len(Entities(doc, "w")) :
                         Entities(doc, "w")[i] = doc.last.other[j]
    /\ doc.last.op \in {"call", "plan"} =>
           \A j \in 1..Len(doc.brought) :
               doc.brought[j].text # << >> =>
                   \E l \in 1..Len(doc.last.prompt) : doc.last.prompt[l] = doc.brought[j].text

=============================================================================
